---- MODULE Spec2Model ----
(***************************************************************************)
(* A model of the pricing pipelines of Pricing_Execution_Assistant:        *)
(*   - compare_volume_tiers and the price derivation of                    *)
(*     processing/new_pricing_processor.py,                                *)
(*   - the cross-dock expansion and the customer-group split of            *)
(*     processing/Variable_Pricing_VBCS.py,                                *)
(*   - the Adjustmentamount of the Variable, Fixed and KS formatters,      *)
(*   - the two VBCS combiners.                                             *)
(* Data frames are sequences of records (rows, in frame order).  A cell    *)
(* that pandas holds as NaN is the string NaN below: read_csv turns the    *)
(* text <NA> into NaN, so no cell read from a CSV can hold that text.      *)
(* Money is an integer number of 1/10000 dollar.                           *)
(***************************************************************************)
EXTENDS Integers, Sequences, FiniteSets, TLC

VARIABLES
  \* compare_volume_tiers
  sell_to_tier, custom_label_tier, cvt_result, cvt_branch,
  \* the price derivation
  pc, milk_base_cost, sell_to_volume_fees, custom_label_fees, product_uom,
  cartesian, tier_mask, priced, deduped, final_result,
  \* handle_crossdock and the split of generate_vbcs_files
  xpc, vbcs_df, customer_report_df, winco_final, urm_final, final_df,
  urm_vbcs, winco_vbcs, batch_vbcs,
  \* the Variable, Fixed and KS formatters
  fpc, execution_df, costco_price, merged_df, melted_df, vbcs_initial_df,
  filtered_df, fixed_result, ks_result,
  \* the two combiners
  cpc, output_folder, combined_df,
  \* load_date_assumptions and the run that calls it
  dpc, dscript, assumptions_df, adj_start_date, adj_end_date, filtered_date,
  vbcs_saved,
  \* the key check, the fetch of the market series and main
  bpc, entry, env_keys, keys_file, csv_file, api_keys_valid, uploaded,
  api_keys, key_test, idx, fred, eia, attempts, inflation_data, main_result,
  \* process_and_save_data
  spc, data_frames, output_csv, csv_written, save_result,
  \* get_forecast_data
  gpc, horizon, history, series_i, forecast_rows, fit_results, stderr,
  future_df, future_csv_written,
  \* the forecast block of render
  clock, inflation_mtime, refresh_due, forecast_csv, forecast_cache,
  last_pass,
  \* the reading of a reference CSV
  lpc, ref_name, ref_data, file_on_disk, cleaned_copy_left, encoding_used,
  df_text,
  \* a run of process_uploaded_files
  rpc, uploaded_names, absent_columns, other_columns_present, cost_cell,
  earlier_parquet, parquet_file, cost_columns, attempt, failed_step,
  run_result,
  \* the Variable pricing run and its Excel automation
  vpc, platform, run_no, out_files, csv_generated, pending, returned,
  session_cache, automation,
  \* the session cache of the VBCS outputs
  now, vbcs_cache, vbcs_cache_timestamps, cleaned_at, rerun_pending, offer,
  \* the two cleanup routines
  dir_files, last_cleanup

varsTier == <<sell_to_tier, custom_label_tier, cvt_result, cvt_branch>>
varsPrice == <<pc, milk_base_cost, sell_to_volume_fees, custom_label_fees,
               product_uom, cartesian, tier_mask, priced, deduped,
               final_result>>
varsCrossdock == <<xpc, vbcs_df, customer_report_df, winco_final, urm_final,
                   final_df, urm_vbcs, winco_vbcs, batch_vbcs>>
varsFormat == <<fpc, execution_df, costco_price, merged_df, melted_df,
                vbcs_initial_df, filtered_df, fixed_result, ks_result>>
varsCombine == <<cpc, output_folder, combined_df>>
varsDates == <<dpc, dscript, assumptions_df, adj_start_date, adj_end_date,
               filtered_date, vbcs_saved>>
varsFetch == <<bpc, entry, env_keys, keys_file, csv_file, api_keys_valid,
               uploaded, api_keys, key_test, idx, fred, eia, attempts,
               inflation_data, main_result>>
varsSave == <<spc, data_frames, output_csv, csv_written, save_result>>
varsForecast == <<gpc, horizon, history, series_i, forecast_rows,
                  fit_results, stderr, future_df, future_csv_written>>
varsPage == <<clock, inflation_mtime, refresh_due, forecast_csv,
              forecast_cache, last_pass>>
varsLoad == <<lpc, ref_name, ref_data, file_on_disk, cleaned_copy_left,
              encoding_used, df_text>>
varsParquet == <<rpc, uploaded_names, absent_columns, other_columns_present,
                 cost_cell, earlier_parquet, parquet_file, cost_columns,
                 attempt, failed_step, run_result>>
varsScript == <<vpc, platform, run_no, out_files, csv_generated, pending,
                returned, session_cache, automation>>
varsCache == <<now, vbcs_cache, vbcs_cache_timestamps, cleaned_at,
               rerun_pending, offer>>
varsCleanup == <<dir_files, last_cleanup>>
vars == <<varsTier, varsPrice, varsCrossdock, varsFormat, varsCombine,
          varsDates, varsFetch, varsSave, varsForecast, varsPage, varsLoad,
          varsParquet, varsScript, varsCache, varsCleanup>>

-----------------------------------------------------------------------------
(* Strings.                                                                *)

NaN == "<NA>"

isna(v) == v = NaN

\* The characters the model's strings use, in ASCII order.
Alphabet == " $+,-.0123456789ABCDEFGHIJKLMNOPQRSTUVWXYZabcdefghijklmnopqrstuvwxyz"

CharAt(s, i) == SubSeq(s, i, i)

\* ord(c): the place of c in Alphabet.
OrdOf == [c \in {CharAt(Alphabet, i) : i \in 1..Len(Alphabet)} |->
            CHOOSE i \in 1..Len(Alphabet) : CharAt(Alphabet, i) = c]

Ord(c) == OrdOf[c]

IsLower(c) == Ord(c) >= Ord("a") /\ Ord(c) <= Ord("z")

IsDigit(c) == Ord(c) >= Ord("0") /\ Ord(c) <= Ord("9")

UpperChar(c) == IF IsLower(c) THEN CharAt(Alphabet, Ord(c) - Ord("a") + Ord("A")) ELSE c

RECURSIVE upper(_)
upper(s) == IF s = "" THEN "" ELSE UpperChar(Head(s)) \o upper(Tail(s))

RECURSIVE lstrip(_)
lstrip(s) == IF s # "" /\ Head(s) = " " THEN lstrip(Tail(s)) ELSE s

RECURSIVE rstrip(_)
rstrip(s) ==
  IF s # "" /\ CharAt(s, Len(s)) = " " THEN rstrip(SubSeq(s, 1, Len(s) - 1)) ELSE s

strip(s) == rstrip(lstrip(s))

\* Python's s >= t on strings: by code point, a proper prefix being smaller.
RECURSIVE StrGE(_, _)
StrGE(s, t) ==
  IF t = "" THEN TRUE
  ELSE IF s = "" THEN FALSE
  ELSE IF Head(s) = Head(t) THEN StrGE(Tail(s), Tail(t))
  ELSE Ord(Head(s)) > Ord(Head(t))

\* s.replace(c, '') for a one-character c.
RECURSIVE RemoveChar(_, _)
RemoveChar(s, c) ==
  IF s = "" THEN ""
  ELSE IF Head(s) = c THEN RemoveChar(Tail(s), c)
  ELSE Head(s) \o RemoveChar(Tail(s), c)

\* str.contains(pat, case=False) for a literal pattern.
ContainsCI(s, pat) ==
  LET S == upper(s)
      P == upper(pat)
  IN  \E i \in 1..(Len(S) - Len(P) + 1) : SubSeq(S, i, i + Len(P) - 1) = P

RECURSIVE AllDigits(_)
AllDigits(s) == s = "" \/ (IsDigit(Head(s)) /\ AllDigits(Tail(s)))

RECURSIVE DigitsVal(_)
DigitsVal(s) ==
  IF s = "" THEN 0
  ELSE 10 * DigitsVal(SubSeq(s, 1, Len(s) - 1)) + (Ord(CharAt(s, Len(s))) - Ord("0"))

Unsigned(s) == IF s # "" /\ Head(s) \in {"+", "-"} THEN Tail(s) ELSE s

DotAt(s) == IF \E i \in 1..Len(s) : CharAt(s, i) = "."
            THEN CHOOSE i \in 1..Len(s) : CharAt(s, i) = "."
            ELSE 0

\* Whether float(s) returns for a string of the model: an optional sign, digits,
\* at most one point, at least one digit.  (float strips blanks itself.)
FloatParses(s0) ==
  LET s == Unsigned(strip(s0))
      d == DotAt(s)
      ip == IF d = 0 THEN s ELSE SubSeq(s, 1, d - 1)
      fp == IF d = 0 THEN "" ELSE SubSeq(s, d + 1, Len(s))
  IN  AllDigits(ip) /\ AllDigits(fp) /\ Len(ip) + Len(fp) > 0

\* float(s) in 1/10000: exact for the model's strings (at most four decimals).
FloatVal(s0) ==
  LET t == strip(s0)
      s == Unsigned(t)
      d == DotAt(s)
      ip == IF d = 0 THEN s ELSE SubSeq(s, 1, d - 1)
      fp == IF d = 0 THEN "" ELSE SubSeq(s, d + 1, Len(s))
      f4 == SubSeq(fp \o "0000", 1, 4)
      mag == DigitsVal(ip) * 10000 + DigitsVal(f4)
  IN  IF t # "" /\ Head(t) = "-" THEN 0 - mag ELSE mag

-----------------------------------------------------------------------------
(* compare_volume_tiers.                                                   *)

\* A variant that takes the numeric branch as soon as one side is a number.
cvt_BranchEitherNumeric(sell_to, custom_label) ==
  IF isna(sell_to) \/ isna(custom_label) THEN "missing"
  ELSE IF FloatParses(upper(strip(sell_to))) \/ FloatParses(upper(strip(custom_label)))
       THEN "numeric"
       ELSE "alpha"

\* The branch that returns: the isna guard, the try body, or the except body.
cvt_Branch(sell_to, custom_label) ==
  IF isna(sell_to) \/ isna(custom_label) THEN "missing"
  ELSE IF FloatParses(upper(strip(sell_to))) /\ FloatParses(upper(strip(custom_label)))
       THEN "numeric"
       ELSE "alpha"

\* A variant that reads the rule as custom label <= sell-to.
cvt_Reversed(sell_to, custom_label) ==
  \/ isna(sell_to)
  \/ isna(custom_label)
  \/ StrGE(upper(strip(sell_to)), upper(strip(custom_label)))

compare_volume_tiers(sell_to, custom_label) ==
  LET sell_to_str == upper(strip(sell_to))
      custom_label_str == upper(strip(custom_label))
      b == cvt_Branch(sell_to, custom_label)
  IN  CASE b = "missing" -> TRUE
        [] b = "numeric" -> FloatVal(custom_label_str) >= FloatVal(sell_to_str)
        [] OTHER -> StrGE(custom_label_str, sell_to_str)

\* Bracket cells: the letters as the files write them, numeric brackets, a
\* missing cell.
AlphaTiers == {"A", "B", "C", "D", "E", "b", " c", "D "}
NumericTiers == {"9", "10", "2.5"}
TierCells == AlphaTiers \cup NumericTiers \cup {NaN}

InitTier ==
  /\ sell_to_tier \in TierCells
  /\ custom_label_tier \in TierCells
  /\ cvt_result = "none"
  /\ cvt_branch = "none"

CompareVolumeTiers ==
  /\ cvt_branch = "none"
  /\ cvt_result' = compare_volume_tiers(sell_to_tier, custom_label_tier)
  /\ cvt_branch' = cvt_Branch(sell_to_tier, custom_label_tier)
  /\ UNCHANGED <<sell_to_tier, custom_label_tier>>

-----------------------------------------------------------------------------
(* process_uploaded_files: the price derivation.                           *)

\* Bounds of the model: rows of each bracket fee table, rows of the UOM table.
MaxBracketRows == 2
MaxUomRows == 2

RECURSIVE Flatten(_)
Flatten(ss) == IF ss = <<>> THEN <<>> ELSE Head(ss) \o Flatten(Tail(ss))

\* left.merge(right, on='key', how='left') with key = 1 in every row: each left
\* row with each right row, in order; the right columns NaN when right is empty.
CrossLeft(left, right, missing) ==
  Flatten([i \in 1..Len(left) |->
             IF right = <<>> THEN <<left[i] @@ missing>>
             ELSE [j \in 1..Len(right) |-> left[i] @@ right[j]]])

\* left.merge(right, on='Item', how='left').
MergeOnItem(left, right, missing) ==
  Flatten([i \in 1..Len(left) |->
             LET hits == SelectSeq(right, LAMBDA r : r.Item = left[i].Item)
             IN  IF hits = <<>> THEN <<left[i] @@ missing>>
                 ELSE [j \in 1..Len(hits) |-> left[i] @@ hits[j]]])

parse_dollar(val) ==
  IF isna(val) THEN 0
  ELSE LET clean_val == strip(RemoveChar(RemoveChar(val, "$"), ","))
       IN  IF FloatParses(clean_val) THEN FloatVal(clean_val) ELSE 0

\* base_joins, one product: Product_Class_Plant merged with the plant fees
\* (lines 220-225); the fee cell is NaN when no plant fee row matches.
ClassICells == {"$0.50", NaN}

base_joins(class_i_cell) ==
  <<[Item |-> "1001", Plant |-> "P1", Market |-> "CLASS I",
     ClassIRaw |-> class_i_cell]>>

MilkRow(item, cell, month) == [Item |-> item, BaseMilkRaw |-> cell, Month |-> month]

\* Product_Milk Base Cost.csv: no row for the item, one month, two months,
\* a row of another item first and a missing cost cell.
MilkTables ==
  { <<>>,
    <<MilkRow("1001", "$1.50", "2025-01")>>,
    <<MilkRow("1001", "$1.50", "2025-01"), MilkRow("1001", "$2.00", "2025-02")>>,
    <<MilkRow("2002", "$9.00", "2025-01"), MilkRow("1001", NaN, "2025-02")>> }

\* Product_Processing_Pkg_Ing.csv: dollar text, a bare number, text that is no
\* number.
processing_costs ==
  <<[Item |-> "1001", ProcRaw |-> "$0.30", PkgRaw |-> " 2 ", IngRaw |-> "TBD"]>>

\* The fee of a bracket table's i-th row.
FeeCell(i) == CASE i = 1 -> "$0.10" [] i = 2 -> "0.20" [] OTHER -> "$1,000.00"

SellBrackets == {"A", "b"}
CustomBrackets == {"a", " B"}

BracketTables(cells) ==
  UNION {[1..n -> cells] : n \in 0..MaxBracketRows}

SellTable(bs) == [i \in 1..Len(bs) |-> [SellTo |-> bs[i], SellFeeRaw |-> FeeCell(i)]]

CustomTable(bs) ==
  [i \in 1..Len(bs) |-> [CustomLabel |-> bs[i], CustomFeeRaw |-> FeeCell(i)]]

pallet_fees == <<[Pallet |-> "Mixed", PalletFeeRaw |-> "$0.05"]>>

delivery_fees == <<[Mileage |-> "0-50", Drop |-> ">5000", DeliveryRaw |-> "$0.25"]>>

UomTables ==
  {[i \in 1..n |-> [Item |-> "1001", GalPerEach |-> i, GalPerCase |-> 4 * i]] :
     n \in 0..MaxUomRows}

InitPrice ==
  /\ pc = "start"
  /\ milk_base_cost \in MilkTables
  /\ \E cell \in ClassICells : cartesian = base_joins(cell)
  /\ \E bs \in BracketTables(SellBrackets) : sell_to_volume_fees = SellTable(bs)
  /\ \E bs \in BracketTables(CustomBrackets) : custom_label_fees = CustomTable(bs)
  /\ product_uom \in UomTables
  /\ tier_mask = <<>>
  /\ priced = <<>>
  /\ deduped = <<>>
  /\ final_result = <<>>

\* Lines 216-269: the key joins and the four cartesian joins.
PerformJoins ==
  /\ pc = "start"
  /\ LET with_milk_cost ==
           MergeOnItem(cartesian, milk_base_cost, [BaseMilkRaw |-> NaN, Month |-> NaN])
         with_processing_costs ==
           MergeOnItem(with_milk_cost, processing_costs,
                       [ProcRaw |-> NaN, PkgRaw |-> NaN, IngRaw |-> NaN])
         temp1 == CrossLeft(with_processing_costs, sell_to_volume_fees,
                            [SellTo |-> NaN, SellFeeRaw |-> NaN])
         temp2 == CrossLeft(temp1, custom_label_fees,
                            [CustomLabel |-> NaN, CustomFeeRaw |-> NaN])
         temp3 == CrossLeft(temp2, pallet_fees, [Pallet |-> NaN, PalletFeeRaw |-> NaN])
     IN  cartesian' = CrossLeft(temp3, delivery_fees,
                                [Mileage |-> NaN, Drop |-> NaN, DeliveryRaw |-> NaN])
  /\ pc' = "joined"
  /\ UNCHANGED <<milk_base_cost, sell_to_volume_fees, custom_label_fees, product_uom,
                 tier_mask, priced, deduped, final_result>>

\* Lines 271-285: the volume-tier filter's boolean mask.
ApplyVolumeTierRule ==
  /\ pc = "joined"
  /\ tier_mask' = [i \in 1..Len(cartesian) |->
                     compare_volume_tiers(cartesian[i].SellTo, cartesian[i].CustomLabel)]
  /\ pc' = "filtered"
  /\ UNCHANGED <<milk_base_cost, sell_to_volume_fees, custom_label_fees, product_uom,
                 cartesian, priced, deduped, final_result>>

\* The rows of a frame a boolean mask selects, in order.
RECURSIVE Masked(_, _)
Masked(rows, mask) ==
  IF rows = <<>> THEN <<>>
  ELSE (IF Head(mask) THEN <<Head(rows)>> ELSE <<>>) \o Masked(Tail(rows), Tail(mask))

\* A variant with the 1% of the comment above line 345.
ShrinkOnePercent(base_milk, class_i) == (base_milk + class_i) \div 100

\* Line 345: (base + class I) * 0.02.
Shrink(base_milk, class_i) == ((base_milk + class_i) * 2) \div 100

\* Line 361: the sum of fob_cost_cols.
FobPrice(p) ==
  p.BaseMilk + p.ClassI + p.Shrink + p.Processing + p.Packaging + p.Ingredients
    + p.SellFee + p.CustomFee + p.PalletFee

\* Lines 295-370 on one row: the cost cells parsed, shrink, FOB, delivered.
PriceRow(r) ==
  LET base == parse_dollar(r.BaseMilkRaw)
      cls == parse_dollar(r.ClassIRaw)
      costs == [BaseMilk |-> base, ClassI |-> cls, Shrink |-> Shrink(base, cls),
                Processing |-> parse_dollar(r.ProcRaw),
                Packaging |-> parse_dollar(r.PkgRaw),
                Ingredients |-> parse_dollar(r.IngRaw),
                SellFee |-> parse_dollar(r.SellFeeRaw),
                CustomFee |-> parse_dollar(r.CustomFeeRaw),
                PalletFee |-> parse_dollar(r.PalletFeeRaw)]
      fob == FobPrice(costs)
      delivery == parse_dollar(r.DeliveryRaw)
  IN  [FOB |-> fob, Delivery |-> delivery, Delivered |-> fob + delivery] @@ costs @@ r

\* Lines 287-370: the UOM merge and the price columns.
ComputePrices ==
  /\ pc = "filtered"
  /\ LET kept == Masked(cartesian, tier_mask)
         with_uom == MergeOnItem(kept, product_uom,
                                 [GalPerEach |-> NaN, GalPerCase |-> NaN])
     IN  priced' = [i \in 1..Len(with_uom) |-> PriceRow(with_uom[i])]
  /\ pc' = "priced"
  /\ UNCHANGED <<milk_base_cost, sell_to_volume_fees, custom_label_fees, product_uom,
                 cartesian, tier_mask, deduped, final_result>>

key_columns(r) ==
  <<r.Item, r.Plant, r.SellTo, r.CustomLabel, r.Pallet, r.Mileage, r.Drop, r.Market>>

\* A variant with keep='last'.
KeepLast(rows) ==
  [i \in 1..Len(rows) |->
     \A j \in (i + 1)..Len(rows) : key_columns(rows[j]) # key_columns(rows[i])]

\* The mask of drop_duplicates(subset=key_columns, keep='first').
KeepFirst(rows) ==
  [i \in 1..Len(rows) |->
     \A j \in 1..(i - 1) : key_columns(rows[j]) # key_columns(rows[i])]

drop_duplicates(rows) == Masked(rows, KeepFirst(rows))

\* Lines 372-374.
RemoveDuplicates ==
  /\ pc = "priced"
  /\ deduped' = drop_duplicates(priced)
  /\ pc' = "deduped"
  /\ UNCHANGED <<milk_base_cost, sell_to_volume_fees, custom_label_fees, product_uom,
                 cartesian, tier_mask, priced, final_result>>

sort_cols(r) == <<r.Item, r.SellTo, r.CustomLabel, r.Pallet, r.Mileage, r.Drop>>

\* a before b in an ascending sort with NaN last.
CellLess(a, b) ==
  IF isna(a) THEN FALSE ELSE IF isna(b) THEN TRUE ELSE ~StrGE(a, b)

RECURSIVE TupleLess(_, _)
TupleLess(k1, k2) ==
  IF k1 = <<>> THEN FALSE
  ELSE IF CellLess(Head(k1), Head(k2)) THEN TRUE
  ELSE IF CellLess(Head(k2), Head(k1)) THEN FALSE
  ELSE TupleLess(Tail(k1), Tail(k2))

RECURSIVE InsertSorted(_, _)
InsertSorted(sorted, r) ==
  IF sorted = <<>> THEN <<r>>
  ELSE IF TupleLess(sort_cols(r), sort_cols(Head(sorted)))
       THEN <<r>> \o sorted
       ELSE <<Head(sorted)>> \o InsertSorted(Tail(sorted), r)

\* sort_values(by=sort_cols): ascending, NaN last, equal keys in frame order.
RECURSIVE sort_values(_)
sort_values(rows) ==
  IF rows = <<>> THEN <<>>
  ELSE InsertSorted(sort_values(SubSeq(rows, 1, Len(rows) - 1)), rows[Len(rows)])

\* Lines 392-395: the rows as they are saved.
SortRows ==
  /\ pc = "deduped"
  /\ final_result' = sort_values(deduped)
  /\ pc' = "done"
  /\ UNCHANGED <<milk_base_cost, sell_to_volume_fees, custom_label_fees, product_uom,
                 cartesian, tier_mask, priced, deduped>>

-----------------------------------------------------------------------------
(* Variable_Pricing_VBCS.py: the VBCS record, handle_crossdock and the     *)
(* customer-group split of generate_vbcs_files.                            *)

MaxVbcsRows == 3
MaxDirRows == 2

Range(f) == {f[i] : i \in DOMAIN f}

\* format_for_vbcs, one row.  Pricelistname is assigned while the frame has
\* no index yet, so the column holds no value until line 166 sets it.
format_for_vbcs(r) ==
  [Pricelistname |-> NaN,
   Pricinguom |-> r.PricingUOM,
   Baselineprice |-> 0,
   Chargestartdate |-> "1/1/2020 12:00:00 AM",
   Chargeenddate |-> "",
   Item_Name |-> r.Item,
   Customername |-> r.CustomerName,
   Customernumber |-> "",
   Shiptositename |-> r.PartySiteName,
   Customersitenumber |-> r.PartySiteNumber,
   Adjustmenttype |-> "MARKUP_AMOUNT",
   Adjustmentamount |-> r.Rounded,
   Adjustmentbasis |-> "",
   Precedence |-> "",
   Market |-> r.MarketIndexName,
   Age |-> "",
   Spec |-> "",
   Grade |-> "",
   Adjustmentstartdate |-> r.Adjustmentstartdate,
   Adjustmentenddate |-> r.Adjustmentenddate,
   Status |-> "N",
   Blank |-> ""]

\* Series.str.contains('P1|P2', case=False, na=False).
str_contains(s, pats) == ~isna(s) /\ \E p \in pats : ContainsCI(s, p)

WincoHubSite == "WINCO 002 KENNEWICK DSD"
UrmHubSite == "TOWN PUMP"
UrmExcludedSites == {"TOWN PUMP", "URM WHSE SPOKANE HTST", "URM WHSE SPOKANE"}
unwanted_customers ==
  {"DFS Gourmet Specialties, Inc., dba Better Butter", "FAIRFIELD GOURMET FOODS"}

\* The customer names of the model, and which of them each pattern matches.
CustomerNames ==
  {"WINCO FOODS", "Winco Foods LLC", "URM STORES", "Topco Associates",
   "FAIRFIELD GOURMET FOODS", "WINCO URM DISTRIBUTION", "SAFEWAY", NaN}
MatchesWinco == [n \in CustomerNames |-> str_contains(n, {"WINCO"})]
MatchesUrm == [n \in CustomerNames |-> str_contains(n, {"URM", "TOPCO"})]
MatchesAny == [n \in CustomerNames |-> str_contains(n, {"URM", "TOPCO", "WINCO"})]

IsWinco(name) == MatchesWinco[name]
IsUrm(name) == MatchesUrm[name]
IsAnyGroup(name) == MatchesAny[name]

winco_initial(df) == SelectSeq(df, LAMBDA r : IsWinco(r.Customername))

other_customers(df) == SelectSeq(df, LAMBDA r : ~IsWinco(r.Customername))

winco_source_site(df) ==
  SelectSeq(winco_initial(df), LAMBDA r : r.Shiptositename = WincoHubSite)

winco_dest_sites(report) ==
  SelectSeq(report, LAMBDA d : IsWinco(d.PartyName) /\ d.PartySiteName # WincoHubSite)

urm_customers(df) ==
  SelectSeq(SelectSeq(other_customers(df), LAMBDA r : IsUrm(r.Customername)),
            LAMBDA r : r.Customername \notin unwanted_customers)

\* A variant that does not add the excluded customers back.
final_other_customers_without_unwanted(df) ==
  SelectSeq(other_customers(df), LAMBDA r : ~IsUrm(r.Customername))

final_other_customers(df) ==
  SelectSeq(other_customers(df), LAMBDA r : ~IsUrm(r.Customername))
    \o SelectSeq(other_customers(df), LAMBDA r : r.Customername \in unwanted_customers)

urm_source_site(df) ==
  SelectSeq(urm_customers(df), LAMBDA r : r.Shiptositename = UrmHubSite)

urm_dest_sites(report) ==
  SelectSeq(report, LAMBDA d : /\ IsUrm(d.PartyName)
                               /\ d.PartySiteName \notin UrmExcludedSites
                               /\ d.PartyName \notin unwanted_customers)

\* A variant that leaves the template's customer name in the new row.
CrossRowKeepsCustomer(t, d) ==
  [t EXCEPT !.Shiptositename = d.PartySiteName,
            !.Customersitenumber = d.PartySiteNumber]

\* One row of the cross join: the template without its three customer
\* columns, and the directory entry's columns renamed into their place.
CrossRow(t, d) ==
  [t EXCEPT !.Customername = d.PartyName,
            !.Shiptositename = d.PartySiteName,
            !.Customersitenumber = d.PartySiteNumber]

\* A variant that joins the first template row only.
merge_cross_first(source, dest) ==
  [j \in 1..Len(dest) |-> CrossRow(source[1], dest[j])]

\* source.merge(dest, how='cross'): every pair, the left frame's order first.
merge_cross(source, dest) ==
  Flatten([i \in 1..Len(source) |->
             [j \in 1..Len(dest) |-> CrossRow(source[i], dest[j])]])

\* A variant whose else branch returns the template rows only.
expand_group_source_only(initial, source, dest) ==
  IF source # <<>> /\ dest # <<>>
  THEN initial \o merge_cross(source, dest)
  ELSE source

\* Lines 1733-1748 for Winco, 1787-1799 for URM/TOPCO.
expand_group(initial, source, dest) ==
  IF source # <<>> /\ dest # <<>>
  THEN initial \o merge_cross(source, dest)
  ELSE initial

FinalDataRow(item, customer, site, site_number, amount) ==
  [PricingUOM |-> "EA", Item |-> item, CustomerName |-> customer,
   PartySiteName |-> site, PartySiteNumber |-> site_number, Rounded |-> amount,
   MarketIndexName |-> "CLASS III", Adjustmentstartdate |-> "9/1/2025",
   Adjustmentenddate |-> "9/30/2025"]

\* The formatted rows a run may hold, in file order.
VbcsPool ==
  <<format_for_vbcs(FinalDataRow(100, "WINCO FOODS", WincoHubSite, "500", 12300)),
    format_for_vbcs(FinalDataRow(200, "WINCO FOODS", WincoHubSite, "500", 45600)),
    format_for_vbcs(FinalDataRow(100, "Winco Foods LLC", "WINCO 010 BOISE", "501", 12500)),
    format_for_vbcs(FinalDataRow(100, "URM STORES", UrmHubSite, "600", 22300)),
    format_for_vbcs(FinalDataRow(200, "Topco Associates", UrmHubSite, "600", 55600)),
    format_for_vbcs(FinalDataRow(100, "URM STORES", "URM WHSE SPOKANE", "602", 22500)),
    format_for_vbcs(FinalDataRow(100, "FAIRFIELD GOURMET FOODS", UrmHubSite, "700", 32300)),
    format_for_vbcs(FinalDataRow(100, "WINCO URM DISTRIBUTION", "DIST 1", "900", 42300)),
    format_for_vbcs(FinalDataRow(100, "SAFEWAY", "SAFEWAY 1", "800", 52300)),
    format_for_vbcs(FinalDataRow(100, NaN, "SAFEWAY 2", "801", 52500))>>

DirEntry(party, number, site) ==
  [PartyName |-> party, PartySiteNumber |-> number, PartySiteName |-> site]

\* The customer directory entries a run may hold, in file order.
DirPool ==
  <<DirEntry("WINCO FOODS", "501", "WINCO 010 BOISE"),
    DirEntry("WINCO FOODS", "500", WincoHubSite),
    DirEntry("Winco Foods LLC", "502", "WINCO 020 BEND"),
    DirEntry("URM STORES", "601", "YOKES 1"),
    DirEntry("URM STORES", "600", UrmHubSite),
    DirEntry("URM STORES", "602", "URM WHSE SPOKANE"),
    DirEntry("FAIRFIELD GOURMET FOODS", "700", "FAIRFIELD 1"),
    DirEntry("SAFEWAY", "800", "SAFEWAY 1")>>

\* The frames of at most n rows taken from a pool, the pool's order kept.
FramesOf(pool, n) ==
  {Masked(pool, mask) :
     mask \in {m \in [1..Len(pool) -> BOOLEAN] :
                 Cardinality({i \in 1..Len(pool) : m[i]}) <= n}}

InitCrossdock ==
  /\ xpc = "start"
  /\ vbcs_df \in FramesOf(VbcsPool, MaxVbcsRows)
  /\ customer_report_df \in FramesOf(DirPool, MaxDirRows)
  /\ winco_final = <<>>
  /\ urm_final = <<>>
  /\ final_df = <<>>
  /\ urm_vbcs = <<>>
  /\ winco_vbcs = <<>>
  /\ batch_vbcs = <<>>

\* handle_crossdock, lines 1714-1804.
HandleCrossdock ==
  /\ xpc = "start"
  /\ winco_final' = expand_group(winco_initial(vbcs_df),
                                 winco_source_site(vbcs_df),
                                 winco_dest_sites(customer_report_df))
  /\ urm_final' = expand_group(urm_customers(vbcs_df),
                               urm_source_site(vbcs_df),
                               urm_dest_sites(customer_report_df))
  /\ final_df' = final_other_customers(vbcs_df) \o winco_final' \o urm_final'
  /\ xpc' = "expanded"
  /\ UNCHANGED <<vbcs_df, customer_report_df, urm_vbcs, winco_vbcs, batch_vbcs>>

\* DataFrame.drop_duplicates(): the first of every run of equal rows.
drop_duplicates_all(rows) ==
  Masked(rows, [i \in 1..Len(rows) |-> \A j \in 1..(i - 1) : rows[j] # rows[i]])

\* Lines 166-168.
set_pricelistname(rows) ==
  [i \in 1..Len(rows) |-> [rows[i] EXCEPT !.Pricelistname = "CP_Market Price"]]

\* generate_vbcs_files, lines 154-178: the three frames as they are written.
SplitAndSave ==
  /\ xpc = "expanded"
  /\ urm_vbcs' = set_pricelistname(drop_duplicates_all(
                   SelectSeq(final_df, LAMBDA r : IsUrm(r.Customername))))
  /\ winco_vbcs' = set_pricelistname(drop_duplicates_all(
                     SelectSeq(final_df, LAMBDA r : IsWinco(r.Customername))))
  /\ batch_vbcs' = set_pricelistname(drop_duplicates_all(
                     SelectSeq(final_df, LAMBDA r : ~IsAnyGroup(r.Customername))))
  /\ xpc' = "written"
  /\ UNCHANGED <<vbcs_df, customer_report_df, winco_final, urm_final, final_df>>

-----------------------------------------------------------------------------
(* Adjustmentamount in the Variable, Fixed and KS formatters.              *)

MaxSourceRows == 2

\* A numeric cell: a value in 1/10000 (or a plain count), or NaN.
Num(v) == [na |-> FALSE, v |-> v]
NaNNum == [na |-> TRUE, v |-> 0]

\* pd.to_numeric(cell, errors='coerce'), and the float read_csv makes of a
\* numeric cell.
to_numeric(cell) ==
  IF isna(cell) \/ ~FloatParses(cell) THEN NaNNum ELSE Num(FloatVal(cell))

\* The product of a price and a count; NaN if either is.
Times(a, b) == [na |-> a.na \/ b.na, v |-> IF a.na \/ b.na THEN 0 ELSE a.v * b.v]

\* to_numeric(rule, errors='coerce').fillna(0).astype(int)
rounding_rule_int(cell) ==
  LET n == to_numeric(cell) IN IF n.na THEN 0 ELSE n.v \div 10000

RECURSIVE Pow10(_)
Pow10(n) == IF n <= 0 THEN 1 ELSE 10 * Pow10(n - 1)

\* The weight, in 1/10000, of the last of d decimal places.
UnitOf(d) == Pow10(4 - d)

\* A variant that cuts the digits off instead of rounding.
round_truncating(x, d) == {(x \div UnitOf(d)) * UnitOf(d)}

\* round(x, d) of a non-negative x, as the set of values it can return.  A tie
\* that a binary float holds exactly (a multiple of 1/16) goes to the even
\* neighbour; a decimal tie a float cannot hold goes where its binary
\* neighbour lies, either way.
round(x, d) ==
  LET unit == UnitOf(d)
      lo == (x \div unit) * unit
      rest == x - lo
  IN  IF 2 * rest < unit THEN {lo}
      ELSE IF 2 * rest > unit THEN {lo + unit}
      ELSE IF x % 625 = 0
           THEN {IF (lo \div unit) % 2 = 0 THEN lo ELSE lo + unit}
           ELSE {lo, lo + unit}

\* str.contains(pat) for a literal pattern, case kept.
Contains(s, pat) ==
  ~isna(s) /\ \E i \in 1..(Len(s) - Len(pat) + 1) : SubSeq(s, i, i + Len(pat) - 1) = pat

\* What the reports of the model say about an item.
ItemInfo(item) ==
  IF item = 100
  THEN [Description |-> "KS WHOLE MILK", Market |-> "CLASS III",
        Customer |-> "COSTCO", Site |-> "COSTCO 1", SiteNumber |-> "501"]
  ELSE [Description |-> "HEAVY CREAM", Market |-> "Fixed Annual",
        Customer |-> "SAFEWAY", Site |-> "SAFEWAY 1", SiteNumber |-> "800"]

PriceCells == {"1.2346", "1.235", "2.5"}
RuleCells == {"2", NaN}
CostcoCells == {"1.235", "0"}

\* A row of the execution data and of the price build report: the columns the
\* three formatters read.
SourceRow(item, price_cell, rule_cell) ==
  [Item |-> item,
   ItemDescription |-> ItemInfo(item).Description,
   MarketIndexName |-> ItemInfo(item).Market,
   Customer |-> ItemInfo(item).Customer,
   ShipToSiteName |-> ItemInfo(item).Site,
   PartySiteNumber |-> ItemInfo(item).SiteNumber,
   PriceAdjustmentStartDate |-> "2025-09-01",
   PricingUOM |-> "EA",
   TotalPrice |-> price_cell,
   RoundingRule |-> rule_cell]

SourceRows == {SourceRow(i, p, r) : i \in {100, 200}, p \in PriceCells, r \in RuleCells}

SourceFrames == UNION {[1..n -> SourceRows] : n \in 0..MaxSourceRows}

\* The UOM table: item 100 has four eaches per case and ten cases per stack.
uom_df ==
  <<[ProductID |-> 100, EachesPerCase |-> "4", CAperST |-> "10",
     CAperPL |-> NaN, CAperBC |-> NaN]>>

\* The region of a ship-to site number, blanks as in the file.
costco_regions_lookup == <<[ShipToSiteNumber |-> "501", Region |-> " PNW "]>>

InitFormat ==
  /\ fpc = "start"
  /\ execution_df \in SourceFrames
  /\ costco_price \in CostcoCells
  /\ merged_df = <<>>
  /\ melted_df = <<>>
  /\ vbcs_initial_df = <<>>
  /\ filtered_df = <<>>
  /\ fixed_result = <<>>
  /\ ks_result = <<>>

\* merge_uom_and_calculate_prices, one row of the left merge.
MergedRow(r, u) ==
  LET price_ea == to_numeric(r.TotalPrice)
      count(cell) == LET n == to_numeric(cell) IN [n EXCEPT !.v = n.v \div 10000]
      eaches == count(u.EachesPerCase)
  IN  [Item |-> r.Item, CustomerName |-> r.Customer,
       PartySiteName |-> r.ShipToSiteName, PartySiteNumber |-> r.PartySiteNumber,
       MarketIndexName |-> r.MarketIndexName,
       RoundingRule |-> rounding_rule_int(r.RoundingRule),
       EA |-> price_ea,
       CA |-> Times(price_ea, eaches),
       ST |-> Times(Times(price_ea, eaches), count(u.CAperST)),
       PL |-> Times(Times(price_ea, eaches), count(u.CAperPL)),
       BC |-> Times(Times(price_ea, eaches), count(u.CAperBC))]

NoUom == [ProductID |-> 0, EachesPerCase |-> NaN, CAperST |-> NaN,
          CAperPL |-> NaN, CAperBC |-> NaN]

merge_uom_and_calculate_prices(df, uom) ==
  Flatten([i \in 1..Len(df) |->
    LET hits == SelectSeq(uom, LAMBDA u : u.ProductID = df[i].Item)
    IN  IF hits = <<>> THEN <<MergedRow(df[i], NoUom)>>
        ELSE [k \in 1..Len(hits) |-> MergedRow(df[i], hits[k])]])

\* Lines 557-595.
MergeUomAndCalculatePrices ==
  /\ fpc = "start"
  /\ merged_df' = merge_uom_and_calculate_prices(execution_df, uom_df)
  /\ fpc' = "merged"
  /\ UNCHANGED <<execution_df, costco_price, melted_df, vbcs_initial_df,
                 filtered_df, fixed_result, ks_result>>

PricingUoms == <<"EA", "CA", "ST", "PL", "BC">>

\* pd.melt: one block of rows per price column, then the rows whose price is
\* NaN or 0 dropped.  TotalPrice is the column line 631 drops; it is kept here
\* beside the rounded value.
melt(df) ==
  LET block(u) == [i \in 1..Len(df) |->
                     [Item |-> df[i].Item, CustomerName |-> df[i].CustomerName,
                      PartySiteName |-> df[i].PartySiteName,
                      PartySiteNumber |-> df[i].PartySiteNumber,
                      MarketIndexName |-> df[i].MarketIndexName,
                      RoundingRule |-> df[i].RoundingRule,
                      PricingUOM |-> u,
                      TotalPrice |-> df[i][u]]]
      all == Flatten([k \in 1..Len(PricingUoms) |-> block(PricingUoms[k])])
  IN  SelectSeq(all, LAMBDA m : ~m.TotalPrice.na /\ m.TotalPrice.v # 0)

\* The frames line 627 can produce: every row with one value of round.
RECURSIVE RoundedFrames(_)
RoundedFrames(rows) ==
  IF rows = <<>> THEN {<<>>}
  ELSE LET m == Head(rows)
       IN  {<<[Item |-> m.Item, CustomerName |-> m.CustomerName,
               PartySiteName |-> m.PartySiteName,
               PartySiteNumber |-> m.PartySiteNumber,
               MarketIndexName |-> m.MarketIndexName,
               RoundingRule |-> m.RoundingRule,
               PricingUOM |-> m.PricingUOM,
               TotalPrice |-> m.TotalPrice.v,
               Rounded |-> a,
               Adjustmentstartdate |-> "9/1/2025",
               Adjustmentenddate |-> "9/30/2025"]>> \o rest :
              a \in round(m.TotalPrice.v, m.RoundingRule),
              rest \in RoundedFrames(Tail(rows))}

\* pivot_and_round_data, lines 597-633.
PivotAndRoundData ==
  /\ fpc = "merged"
  /\ melted_df' \in RoundedFrames(melt(merged_df))
  /\ fpc' = "pivoted"
  /\ UNCHANGED <<execution_df, costco_price, merged_df, vbcs_initial_df,
                 filtered_df, fixed_result, ks_result>>

\* format_for_vbcs, lines 727-752.  The steps between (lines 108-139) check
\* the sites and add the date and market columns; they leave the price alone.
FormatForVbcs ==
  /\ fpc = "pivoted"
  /\ vbcs_initial_df' = [i \in 1..Len(melted_df) |-> format_for_vbcs(melted_df[i])]
  /\ fpc' = "variable_done"
  /\ UNCHANGED <<execution_df, costco_price, merged_df, melted_df,
                 filtered_df, fixed_result, ks_result>>

\* Fixed_Pricing_VBCS.process_price_data: the WHERE filters of lines 73-90.
fixed_filter(df, filter_date) ==
  SelectSeq(df, LAMBDA r :
    /\ Contains(r.MarketIndexName, "Fixed") \/ Contains(r.MarketIndexName, "Quarterly")
    /\ r.PriceAdjustmentStartDate = filter_date
    /\ ~(~isna(r.ItemDescription) /\ SubSeq(r.ItemDescription, 1, 2) = "DG"))

\* One row of the result frame of lines 93-116.
fixed_record(r) ==
  [Pricelistname |-> "CP_Market Price", Pricinguom |-> r.PricingUOM, Baselineprice |-> 0,
   Chargestartdate |-> "2020-01-01 00:00:00", Chargeenddate |-> "",
   Item_Name |-> r.Item, Customername |-> r.Customer, Customernumber |-> "",
   Shiptositename |-> r.ShipToSiteName, Customersitenumber |-> r.PartySiteNumber,
   Adjustmenttype |-> "MARKUP_AMOUNT",
   Adjustmentamount |-> to_numeric(r.TotalPrice),
   Adjustmentbasis |-> "", Precedence |-> "", Market |-> r.MarketIndexName,
   Age |-> "", Spec |-> "", Grade |-> "",
   Adjustmentstartdate |-> "2025-09-01 00:00:00",
   Adjustmentenddate |-> "2025-09-30 23:59:00", Status |-> "N"]

\* process_price_data, lines 56-118.
ProcessPriceData ==
  /\ fpc = "start"
  /\ filtered_df' = fixed_filter(execution_df, "2025-09-01")
  /\ fixed_result' = [i \in 1..Len(filtered_df') |-> fixed_record(filtered_df'[i])]
  /\ fpc' = "fixed_done"
  /\ UNCHANGED <<execution_df, costco_price, merged_df, melted_df,
                 vbcs_initial_df, ks_result>>

\* KS_Pricing_VBCS: lines 84-105, the report filtered and joined to its region.
pb_with_region(report) ==
  LET pb_filtered == SelectSeq(report, LAMBDA r :
                       Contains(r.ItemDescription, "KS") /\ Contains(r.MarketIndexName, "CLASS"))
      joined(r) ==
        LET hits == SelectSeq(costco_regions_lookup,
                              LAMBDA g : g.ShipToSiteNumber = r.PartySiteNumber)
        IN  IF hits = <<>> THEN <<[row |-> r, Region |-> NaN]>>
            ELSE [k \in 1..Len(hits) |-> [row |-> r, Region |-> strip(hits[k].Region)]]
  IN  Flatten([i \in 1..Len(pb_filtered) |-> joined(pb_filtered[i])])

\* price_mapping.get((item, region), 0) of lines 113-138 and 155: the price
\* sheet has the one product 100 and the one region column PNW.
price_mapping_get(item, region, cell) ==
  IF item = 100 /\ region = "PNW" /\ ~to_numeric(cell).na
  THEN to_numeric(cell).v
  ELSE 0

\* Line 179: round(price, 2).
ks_amounts(price) == round(price, 2)

\* The two records (EA, CA) lines 168-193 append for one priced row.
ks_records(r, amount) ==
  [k \in 1..2 |->
    [Pricelistname |-> "CP_Market Price", Pricinguom |-> <<"EA", "CA">>[k],
     Baselineprice |-> 0, Chargestartdate |-> "43831", Chargeenddate |-> "",
     Item_Name |-> r.Item, Customername |-> r.Customer, Customernumber |-> "",
     Shiptositename |-> r.ShipToSiteName, Customersitenumber |-> r.PartySiteNumber,
     Adjustmenttype |-> "MARKUP_AMOUNT", Adjustmentamount |-> amount,
     Adjustmentbasis |-> "", Precedence |-> "", Market |-> r.MarketIndexName,
     Age |-> "", Spec |-> "", Grade |-> "",
     Adjustmentstartdate |-> "09/01/2025", Adjustmentenddate |-> "09/30/2025 23:59",
     Status |-> "N", Blank |-> ""]]

\* The frames the loop of lines 146-194 can build.
RECURSIVE ks_final_rows(_, _)
ks_final_rows(rows, cell) ==
  IF rows = <<>> THEN {<<>>}
  ELSE LET h == Head(rows)
           price == price_mapping_get(h.row.Item, h.Region, cell)
       IN  IF isna(h.Region) \/ price = 0
           THEN ks_final_rows(Tail(rows), cell)
           ELSE {ks_records(h.row, a) \o rest :
                   a \in ks_amounts(price), rest \in ks_final_rows(Tail(rows), cell)}

\* process_costco_pricing_data, lines 43-209.
ProcessCostcoPricingData ==
  /\ fpc = "start"
  /\ \E rows \in ks_final_rows(pb_with_region(execution_df), costco_price) :
       ks_result' = drop_duplicates_all(rows)
  /\ fpc' = "ks_done"
  /\ UNCHANGED <<execution_df, costco_price, merged_df, melted_df,
                 vbcs_initial_df, filtered_df, fixed_result>>

-----------------------------------------------------------------------------
(* The two combiners: run_combine_vbcs of the page and combine_vbcs_files  *)
(* of the script.                                                          *)

MaxFileRows == 2

\* Line 702: the number of leading columns the page keeps.
KeptColumns == 21

VbcsColumns ==
  <<"Pricelistname", "Pricinguom", "Baselineprice", "Chargestartdate", "Chargeenddate",
    "Item_Name", "Customername", "Customernumber", "Shiptositename", "Customersitenumber",
    "Adjustmenttype", "Adjustmentamount", "Adjustmentbasis", "Precedence", "Market",
    "Age", "Spec", "Grade", "Adjustmentstartdate", "Adjustmentenddate", "Status">>

\* Combine_VBCS.py lines 98-104.
expected_columns == VbcsColumns \o <<"", "Region">>

\* A frame is its column names in order and its rows, each a function on the
\* column names.  read_csv gives an empty cell as NaN and the column with the
\* empty name as "Unnamed: 21".
CsvRow(columns, amount) ==
  [c \in Range(columns) |->
     CASE c = "Pricelistname" -> "CP_Market Price"
       [] c = "Pricinguom" -> "EA"
       [] c = "Baselineprice" -> "0"
       [] c = "Chargestartdate" -> "1/1/2020 12:00:00 AM"
       [] c = "Item_Name" -> "100"
       [] c = "Customername" -> "SAFEWAY"
       [] c = "Shiptositename" -> "SAFEWAY 1"
       [] c = "Customersitenumber" -> "800"
       [] c = "Adjustmenttype" -> "MARKUP_AMOUNT"
       [] c = "Adjustmentamount" -> amount
       [] c = "Market" -> "CLASS III"
       [] c = "Adjustmentstartdate" -> "9/1/2025"
       [] c = "Adjustmentenddate" -> "9/30/2025"
       [] c = "Status" -> "N"
       [] OTHER -> NaN]

AmountCells == {"1.23", "4.94", "2.5"}

Missing == [columns |-> <<>>, rows |-> <<>>, exists |-> FALSE]

\* The contents a file of the given columns may have.
FilesOf(columns) ==
  {Missing} \cup
  {[columns |-> columns,
    rows |-> [i \in 1..Len(amounts) |-> CsvRow(columns, amounts[i])],
    exists |-> TRUE] :
     amounts \in UNION {[1..n -> AmountCells] : n \in 0..MaxFileRows}}

\* Lines 53-69 of the script: the files it looks for, in its order.
files_to_combine ==
  <<[description |-> "Batch VBCS", name |-> "batch_vbcs.csv"],
    [description |-> "Fixed VBCS", name |-> "fixed_vbcs.csv"],
    [description |-> "URM VBCS", name |-> "urm_vbcs.csv"],
    [description |-> "Winco VBCS", name |-> "winco_vbcs.csv"],
    [description |-> "KS VBCS", name |-> "ks_htst_vbcs.csv"]>>

\* The Variable formatter writes the 21 columns and the empty-named one, the
\* Fixed formatter the 21 columns.
InitCombine ==
  /\ cpc = "start"
  /\ \E batch \in FilesOf(VbcsColumns \o <<"Unnamed: 21">>), fixed \in FilesOf(VbcsColumns) :
       output_folder = [n \in {files_to_combine[i].name : i \in 1..Len(files_to_combine)} |->
                          CASE n = "batch_vbcs.csv" -> batch
                            [] n = "fixed_vbcs.csv" -> fixed
                            [] OTHER -> Missing]
  /\ combined_df = [columns |-> <<>>, rows |-> <<>>]

\* df.iloc[:, :n]
iloc_columns(df, n) ==
  LET cols == SubSeq(df.columns, 1, n)
  IN  [columns |-> cols,
       rows |-> [i \in 1..Len(df.rows) |-> [c \in Range(cols) |-> df.rows[i][c]]]]

\* df[col] = value
set_column(df, col, value) ==
  [columns |-> IF col \in Range(df.columns) THEN df.columns ELSE df.columns \o <<col>>,
   rows |-> [i \in 1..Len(df.rows) |->
               [c \in Range(df.columns) \cup {col} |->
                  IF c = col THEN value ELSE df.rows[i][c]]]]

\* The column names of a list of frames, each at its first appearance.
RECURSIVE union_columns(_)
union_columns(dfs) ==
  IF dfs = <<>> THEN <<>>
  ELSE LET before == union_columns(SubSeq(dfs, 1, Len(dfs) - 1))
       IN  before \o SelectSeq(dfs[Len(dfs)].columns, LAMBDA c : c \notin Range(before))

\* pd.concat(dfs, ignore_index=True): a column a frame lacks is NaN in its rows.
concat(dfs) ==
  LET cols == union_columns(dfs)
      widen(r) == [c \in Range(cols) |-> IF c \in DOMAIN r THEN r[c] ELSE NaN]
  IN  [columns |-> cols,
       rows |-> Flatten([k \in 1..Len(dfs) |->
                           [i \in 1..Len(dfs[k].rows) |-> widen(dfs[k].rows[i])]])]

\* df[columns]
reorder(df, columns) ==
  [columns |-> columns,
   rows |-> [i \in 1..Len(df.rows) |-> [c \in Range(columns) |-> df.rows[i][c]]]]

\* The files of the folder that exist, in the script's order.
present_files ==
  SelectSeq(files_to_combine, LAMBDA f : output_folder[f.name].exists)

\* pricing_execution_automation_view.py lines 693-716, one uploaded file.
load_uploaded(f) ==
  LET df == [columns |-> output_folder[f.name].columns, rows |-> output_folder[f.name].rows]
      cut == IF Len(df.columns) > KeptColumns THEN iloc_columns(df, KeptColumns) ELSE df
  IN  set_column(cut, "Source_File", f.name)

\* run_combine_vbcs, lines 680-725: the user uploads the files of the folder.
RunCombineVbcs ==
  /\ cpc = "start"
  /\ present_files # <<>>
  /\ LET all == concat([k \in 1..Len(present_files) |-> load_uploaded(present_files[k])])
     IN  combined_df' = [columns |-> all.columns, rows |-> drop_duplicates_all(all.rows)]
  /\ cpc' = "page_done"
  /\ UNCHANGED output_folder

\* Combine_VBCS.py lines 74-88, one file.
load_script(f) ==
  set_column([columns |-> output_folder[f.name].columns,
              rows |-> output_folder[f.name].rows],
             "Source_File", f.description)

\* Lines 106-113: every expected column the frame lacks is added, empty.
RECURSIVE add_missing(_, _)
add_missing(df, columns) ==
  IF columns = <<>> THEN df
  ELSE add_missing(IF Head(columns) \in Range(df.columns) THEN df
                   ELSE set_column(df, Head(columns), ""),
                   Tail(columns))

\* combine_vbcs_files, lines 45-140.
CombineVbcsFiles ==
  /\ cpc = "start"
  /\ present_files # <<>>
  /\ combined_df' =
       reorder(add_missing(concat([k \in 1..Len(present_files) |->
                                     load_script(present_files[k])]),
                           expected_columns),
               expected_columns \o <<"Source_File">>)
  /\ cpc' = "script_done"
  /\ UNCHANGED output_folder

-----------------------------------------------------------------------------
(* load_date_assumptions of Fixed_Pricing_VBCS.py and KS_Pricing_VBCS.py,  *)
(* and the run of the script that calls it.                                *)

MaxRuleRows == 2

IsLeap(y) == (y % 4 = 0 /\ y % 100 # 0) \/ y % 400 = 0

DaysInMonth(y, m) ==
  IF m = 2 THEN (IF IsLeap(y) THEN 29 ELSE 28)
  ELSE IF m \in {4, 6, 9, 11} THEN 30 ELSE 31

\* Whether pd.to_datetime reads the cell: a YYYY-MM-DD date of the calendar.
DateParses(s) ==
  /\ ~isna(s)
  /\ Len(s) = 10
  /\ CharAt(s, 5) = "-" /\ CharAt(s, 8) = "-"
  /\ AllDigits(SubSeq(s, 1, 4)) /\ AllDigits(SubSeq(s, 6, 7)) /\ AllDigits(SubSeq(s, 9, 10))
  /\ DigitsVal(SubSeq(s, 6, 7)) \in 1..12
  /\ DigitsVal(SubSeq(s, 9, 10)) \in
       1..DaysInMonth(DigitsVal(SubSeq(s, 1, 4)), DigitsVal(SubSeq(s, 6, 7)))

Timestamp(y, m, d) ==
  [year |-> y, month |-> m, day |-> d,
   hour |-> 0, minute |-> 0, second |-> 0, microsecond |-> 0]

to_datetime(s) ==
  Timestamp(DigitsVal(SubSeq(s, 1, 4)), DigitsVal(SubSeq(s, 6, 7)),
            DigitsVal(SubSeq(s, 9, 10)))

NoDate == Timestamp(0, 0, 0)

\* Lines 34-37 (Fixed), 27-30 (KS).
next_month(t) ==
  IF t.month = 12
  THEN [t EXCEPT !.year = t.year + 1, !.month = 1, !.day = 1]
  ELSE [t EXCEPT !.month = t.month + 1, !.day = 1]

\* t - pd.Timedelta(days=1)
minus_one_day(t) ==
  IF t.day > 1 THEN [t EXCEPT !.day = t.day - 1]
  ELSE IF t.month > 1
       THEN [t EXCEPT !.month = t.month - 1, !.day = DaysInMonth(t.year, t.month - 1)]
       ELSE [t EXCEPT !.year = t.year - 1, !.month = 12, !.day = 31]

rule_rows(df, rule) == SelectSeq(df, LAMBDA r : r.Rules = rule)

\* load_date_assumptions: what it returns, or that it raises.  The Fixed
\* script also reads the 'Last Month' rule and ends the day at
\* 23:59:59.999999; the KS script ends it at 23:59:00.
load_date_assumptions(df, script) ==
  LET current == rule_rows(df, "Current Month")
      last == rule_rows(df, "Last Month")
      raises == \/ current = <<>>
                \/ ~DateParses(current[1].Value)
                \/ /\ script = "Fixed"
                   /\ (last = <<>> \/ ~DateParses(last[1].Value))
      start == to_datetime(current[1].Value)
      end == minus_one_day(next_month(start))
  IN  IF raises
      THEN [raised |-> TRUE, adj_start_date |-> NoDate, adj_end_date |-> NoDate,
            filtered_date |-> NoDate]
      ELSE [raised |-> FALSE,
            adj_start_date |-> start,
            adj_end_date |->
              IF script = "Fixed"
              THEN [end EXCEPT !.hour = 23, !.minute = 59, !.second = 59,
                               !.microsecond = 999999]
              ELSE [end EXCEPT !.hour = 23, !.minute = 59],
            filtered_date |->
              IF script = "Fixed" THEN to_datetime(last[1].Value) ELSE NoDate]

RuleNames == {"Current Month", "Last Month", "current month"}
DateCells == {"2025-12-01", "2024-02-01", "2025-09-15", "TBD"}

RuleFrames ==
  UNION {[1..n -> [Rules : RuleNames, Value : DateCells]] : n \in 0..MaxRuleRows}

InitDates ==
  /\ dpc = "start"
  /\ dscript \in {"Fixed", "KS"}
  /\ assumptions_df \in RuleFrames
  /\ adj_start_date = NoDate
  /\ adj_end_date = NoDate
  /\ filtered_date = NoDate
  /\ vbcs_saved = FALSE

\* The call of load_date_assumptions (Fixed line 164, KS line 81).  When it
\* raises, the Fixed script exits with status 1 and KS main returns None.
LoadDateAssumptions ==
  /\ dpc = "start"
  /\ LET r == load_date_assumptions(assumptions_df, dscript)
     IN  /\ dpc' = IF r.raised THEN "raised" ELSE "loaded"
         /\ adj_start_date' = r.adj_start_date
         /\ adj_end_date' = r.adj_end_date
         /\ filtered_date' = r.filtered_date
  /\ UNCHANGED <<dscript, assumptions_df, vbcs_saved>>

\* The rest of the run: the records built and the VBCS file written (Fixed
\* lines 171-185, KS lines 84-224).
SaveVbcs ==
  /\ dpc = "loaded"
  /\ vbcs_saved' = TRUE
  /\ dpc' = "saved"
  /\ UNCHANGED <<dscript, assumptions_df, adj_start_date, adj_end_date, filtered_date>>

-----------------------------------------------------------------------------
(* Market_Barometer_Processing.py: the API keys, the fetch of the          *)
(* configured series and main; check_api_keys and the refresh part of      *)
(* render of market_barometer_view.py.                                     *)

AUTO_REFRESH_DAYS == 15

\* The first two entries of FRED_SERIES and of EIA_SERIES, in the order of
\* the dicts.
FRED_SERIES == <<"PPI Food Industry", "PPI All Commodities">>
EIA_SERIES == <<"WTI Crude Oil", "Electricity Price Industrial - WA">>

NaT == Timestamp(0, 0, 0)

\* A response of a service: whether the request came back with a JSON body
\* (no timeout, no error status), the keys of its observations and the
\* cells of their date (period) and value (price) keys.
Response(ok, columns, rows) == [ok |-> ok, columns |-> columns, rows |-> rows]

Observation(d, v) == [date |-> d, value |-> v]

\* None, as make_api_request returns it.
None == Response(FALSE, {}, <<>>)

\* make_api_request: the body, or None on a RequestException.
make_api_request(response) == IF response.ok THEN response ELSE None

\* The frame of lines 244-252 and 296-304.
series_frame(rows, series_name, source) ==
  [i \in 1..Len(rows) |->
     [Date |-> IF isna(rows[i].date) THEN NaT ELSE to_datetime(rows[i].date),
      Value |-> to_numeric(rows[i].value),
      Series |-> series_name,
      Source |-> source]]

\* pd.to_datetime raises on a cell it cannot read.
dates_parse(rows) ==
  \A i \in 1..Len(rows) : isna(rows[i].date) \/ DateParses(rows[i].date)

\* fetch_fred_series: the frame of the series, empty on any failure.
fetch_fred_series(response, series_name) ==
  LET data == make_api_request(response)
  IN  IF ~data.ok \/ data.rows = <<>> THEN <<>>
      ELSE IF ~({"date", "value"} \subseteq data.columns) THEN <<>>
      ELSE IF ~dates_parse(data.rows) THEN <<>>
      ELSE series_frame(data.rows, series_name, "FRED")

\* fetch_eia_series: the frame of the series, empty on any failure.
fetch_eia_series(response, series_name) ==
  LET data == make_api_request(response)
  IN  IF ~data.ok \/ data.rows = <<>> THEN <<>>
      ELSE IF "value" \notin data.columns /\ "price" \notin data.columns THEN <<>>
      ELSE IF "period" \notin data.columns THEN <<>>
      ELSE IF ~dates_parse(data.rows) THEN <<>>
      ELSE series_frame(data.rows, series_name, "EIA")

\* A variant that does not record a series whose frame is empty.
record_result_successes_only(lists, df, label) ==
  IF df # <<>>
  THEN [lists EXCEPT !.data_frames = Append(@, df)]
  ELSE lists

\* Lines 330-333 and 354-357: the frame to the successes, or the label to
\* the failed names.
record_result(lists, df, label) ==
  IF df # <<>>
  THEN [lists EXCEPT !.data_frames = Append(@, df)]
  ELSE [lists EXCEPT !.failed_series = Append(@, label)]

NoLists == [data_frames |-> <<>>, failed_series |-> <<>>]

\* load_api_keys: the services that have a key; the file is read only if
\* the environment lacks one.
load_api_keys(env, file) ==
  env \cup (IF ~({"FRED", "EIA"} \subseteq env) /\ file.exists THEN file.keys ELSE {})

\* should_refresh_data
should_refresh_data(csv) == ~csv.exists \/ csv.age_days >= AUTO_REFRESH_DAYS

\* check_api_keys of the page, given the outcome of the two test requests.
check_api_keys(env, file, fred_ok, eia_ok) ==
  IF ~file.exists THEN FALSE
  ELSE LET loaded == load_api_keys(env, file)
           fred_valid == "FRED" \in loaded /\ fred_ok
           eia_valid == "EIA" \in loaded /\ eia_ok
       IN  fred_valid /\ eia_valid

\* render, lines 788-808: whether the page calls main (by auto_refresh_data
\* or directly).
render_calls_main(valid, csv) ==
  IF valid /\ csv.exists THEN should_refresh_data(csv)
  ELSE valid /\ ~csv.exists

\* A variant of main that returns when a key test fails.
main_after_test_gating(test_fred, test_eia) ==
  IF test_fred /\ test_eia THEN "fetch_fred" ELSE "done"

\* main, lines 694-720: the two tests print a warning or OK, and the fetch
\* follows.
main_after_test(test_fred, test_eia) == "fetch_fred"

\* Timestamp order.
DateLess(a, b) ==
  \/ a.year < b.year
  \/ a.year = b.year /\ a.month < b.month
  \/ a.year = b.year /\ a.month = b.month /\ a.day < b.day

\* The order of the series names, worked out once.
SeriesLess ==
  LET names == Range(FRED_SERIES) \cup Range(EIA_SERIES)
  IN  [s \in names |-> [t \in names |-> ~StrGE(s, t)]]

StrLess(s, t) == SeriesLess[s][t]

SeriesDateLess(r1, r2) ==
  \/ StrLess(r1.Series, r2.Series)
  \/ r1.Series = r2.Series /\ DateLess(r1.Date, r2.Date)

RECURSIVE InsertBySeriesDate(_, _)
InsertBySeriesDate(sorted, r) ==
  IF sorted = <<>> THEN <<r>>
  ELSE IF SeriesDateLess(r, Head(sorted))
       THEN <<r>> \o sorted
       ELSE <<Head(sorted)>> \o InsertBySeriesDate(Tail(sorted), r)

\* sort_values(by=['Series', 'Date'])
RECURSIVE sort_by_series_date(_)
sort_by_series_date(rows) ==
  IF rows = <<>> THEN <<>>
  ELSE InsertBySeriesDate(sort_by_series_date(SubSeq(rows, 1, Len(rows) - 1)),
                          rows[Len(rows)])

\* A variant that also drops a row whose date the frame already holds.
dropna_and_duplicates(rows) ==
  Masked(rows, [i \in 1..Len(rows) |->
                  /\ ~rows[i].Value.na /\ rows[i].Date # NaT
                  /\ \A j \in 1..(i - 1) :
                       ~(rows[j].Series = rows[i].Series /\ rows[j].Date = rows[i].Date)])

\* dropna(subset=['Value', 'Date'])
dropna(rows) == SelectSeq(rows, LAMBDA r : ~r.Value.na /\ r.Date # NaT)

\* process_and_save_data, lines 379-395: the rows written to the CSV.
process_and_save_data(frames) == sort_by_series_date(dropna(Flatten(frames)))

FredResponses ==
  {Response(FALSE, {}, <<>>),
   Response(TRUE, {}, <<>>),
   Response(TRUE, {"date"}, <<Observation("2025-01-01", NaN)>>),
   Response(TRUE, {"date", "value"}, <<Observation("n/a", "100.5")>>),
   Response(TRUE, {"date", "value"}, <<Observation("2025-01-01", ".")>>),
   Response(TRUE, {"date", "value"},
            <<Observation("2025-02-01", "101.5"), Observation("2025-01-01", "100.5")>>)}

EiaResponses ==
  {Response(FALSE, {}, <<>>),
   Response(TRUE, {}, <<>>),
   Response(TRUE, {"period", "units"}, <<Observation("2025-01-01", NaN)>>),
   Response(TRUE, {"period", "price"}, <<Observation("2025-01-01", "7.25")>>),
   Response(TRUE, {"period", "value"},
            <<Observation("2025-01-02", "70.5"), Observation(NaN, "71")>>)}

NoFile == [exists |-> FALSE, keys |-> {}]
KeyFiles == {NoFile} \cup {[exists |-> TRUE, keys |-> k] : k \in {{}, {"FRED"}, {"FRED", "EIA"}}}
CsvFiles == {[exists |-> FALSE, age_days |-> 0]}
              \cup {[exists |-> TRUE, age_days |-> a] : a \in {14, 15}}

InitFetch ==
  /\ entry \in {"script", "page"}
  /\ bpc = IF entry = "script" THEN "main" ELSE "render"
  /\ env_keys \in {{}, {"FRED", "EIA"}}
  /\ keys_file \in KeyFiles
  /\ csv_file \in CsvFiles
  /\ api_keys_valid = "unchecked"
  /\ uploaded = FALSE
  /\ api_keys = {}
  /\ key_test = "untested"
  /\ idx = 1
  /\ fred = NoLists
  /\ eia = NoLists
  /\ attempts = <<>>
  /\ inflation_data = <<>>
  /\ main_result = "none"

varsRun == <<api_keys, key_test, idx, fred, eia, attempts, inflation_data, main_result>>

\* render, line 744: api_keys_valid, api_error = check_api_keys().
RenderCheckApiKeys ==
  /\ bpc = "render"
  /\ \E fred_ok, eia_ok \in BOOLEAN :
       api_keys_valid' = IF check_api_keys(env_keys, keys_file, fred_ok, eia_ok)
                         THEN "valid" ELSE "invalid"
  /\ uploaded' = FALSE
  /\ bpc' = "checked"
  /\ UNCHANGED <<entry, env_keys, keys_file, csv_file, varsRun>>

\* render, lines 747-779: with an invalid check the user uploads a keys file
\* and presses Save API Keys; the file is written and main is called.
RenderSaveApiKeys ==
  /\ bpc = "checked"
  /\ api_keys_valid = "invalid"
  /\ \E k \in {{"FRED"}, {"FRED", "EIA"}} : keys_file' = [exists |-> TRUE, keys |-> k]
  /\ uploaded' = TRUE
  /\ bpc' = "main"
  /\ UNCHANGED <<entry, env_keys, csv_file, api_keys_valid, varsRun>>

\* render, lines 788-808: the automatic refresh and the initial fetch; then
\* the page is drawn from the CSV.
RenderRefresh ==
  /\ bpc = "checked"
  /\ bpc' = IF render_calls_main(api_keys_valid = "valid", csv_file)
            THEN "main" ELSE "shown"
  /\ UNCHANGED <<entry, env_keys, keys_file, csv_file, api_keys_valid, uploaded, varsRun>>

\* main, lines 671-689: the keys are loaded; without one of them main
\* returns False.
MainLoadApiKeys ==
  /\ bpc = "main"
  /\ api_keys' = load_api_keys(env_keys, keys_file)
  /\ IF {"FRED", "EIA"} \subseteq api_keys'
     THEN bpc' = "test_keys" /\ main_result' = "none"
     ELSE bpc' = "done" /\ main_result' = "False"
  /\ key_test' = "untested"
  /\ idx' = 1
  /\ fred' = NoLists
  /\ eia' = NoLists
  /\ attempts' = <<>>
  /\ UNCHANGED <<entry, env_keys, keys_file, csv_file, api_keys_valid, uploaded,
                 inflation_data>>

\* main, lines 692-720: the two test requests.
MainTestApiKeys ==
  /\ bpc = "test_keys"
  /\ \E test_fred, test_eia \in BOOLEAN :
       /\ key_test' = IF test_fred /\ test_eia THEN "ok" ELSE "failed"
       /\ bpc' = main_after_test(test_fred, test_eia)
  /\ UNCHANGED <<entry, env_keys, keys_file, csv_file, api_keys_valid, uploaded,
                 api_keys, idx, fred, eia, attempts, inflation_data, main_result>>

\* fetch_all_fred_data: one pass of the loop of lines 328-333.
FetchFredSeries ==
  /\ bpc = "fetch_fred"
  /\ \E response \in FredResponses :
       fred' = record_result(fred, fetch_fred_series(response, FRED_SERIES[idx]),
                             FRED_SERIES[idx] \o " (FRED)")
  /\ attempts' = Append(attempts, FRED_SERIES[idx])
  /\ IF idx < Len(FRED_SERIES)
     THEN idx' = idx + 1 /\ bpc' = "fetch_fred"
     ELSE idx' = 1 /\ bpc' = "fetch_eia"
  /\ UNCHANGED <<entry, env_keys, keys_file, csv_file, api_keys_valid, uploaded,
                 api_keys, key_test, eia, inflation_data, main_result>>

\* fetch_all_eia_data: one pass of the loop of lines 352-357.
FetchEiaSeries ==
  /\ bpc = "fetch_eia"
  /\ \E response \in EiaResponses :
       eia' = record_result(eia, fetch_eia_series(response, EIA_SERIES[idx]),
                            EIA_SERIES[idx] \o " (EIA)")
  /\ attempts' = Append(attempts, EIA_SERIES[idx])
  /\ IF idx < Len(EIA_SERIES)
     THEN idx' = idx + 1 /\ bpc' = "fetch_eia"
     ELSE idx' = 1 /\ bpc' = "save"
  /\ UNCHANGED <<entry, env_keys, keys_file, csv_file, api_keys_valid, uploaded,
                 api_keys, key_test, fred, inflation_data, main_result>>

\* main, lines 722-761: the frames of both services are saved, if any.
MainProcessAndSave ==
  /\ bpc = "save"
  /\ LET all_data_frames == fred.data_frames \o eia.data_frames
     IN  IF all_data_frames # <<>>
         THEN /\ inflation_data' = process_and_save_data(all_data_frames)
              /\ csv_file' = [exists |-> TRUE, age_days |-> 0]
              /\ main_result' = IF inflation_data' = <<>> THEN "False" ELSE "True"
         ELSE /\ main_result' = "False"
              /\ UNCHANGED <<inflation_data, csv_file>>
  /\ bpc' = "done"
  /\ UNCHANGED <<entry, env_keys, keys_file, api_keys_valid, uploaded,
                 api_keys, key_test, idx, fred, eia, attempts>>

\* render, lines 779, 796 and 806: st.rerun() after main has returned.
Rerun ==
  /\ bpc = "done"
  /\ entry = "page"
  /\ bpc' = "render"
  /\ UNCHANGED <<entry, env_keys, keys_file, csv_file, api_keys_valid, uploaded, varsRun>>

-----------------------------------------------------------------------------
(* process_and_save_data of Market_Barometer_Processing.py, on frames of   *)
(* any content.                                                            *)

MaxObsRows == 2

ObsRow(series, d, v) == [Date |-> d, Value |-> v, Series |-> series, Source |-> "FRED"]

\* The observations a fetched frame of a series may hold.
ObsRows(series) ==
  {ObsRow(series, d, v) : d \in {Timestamp(2025, 1, 1), Timestamp(2025, 2, 1), NaT},
                          v \in {Num(1005000), NaNNum}}

\* The non-empty frames of a series, of at most n rows.
ObsFrames(series, n) == UNION {[1..k -> ObsRows(series)] : k \in 1..n}

\* The lists of frames main may pass: none, one series, or two in either
\* order.
FrameLists ==
  {<<>>}
    \cup {<<a>> : a \in ObsFrames(FRED_SERIES[1], MaxObsRows)}
    \cup {<<a, b>> : a \in ObsFrames(FRED_SERIES[1], MaxObsRows),
                     b \in ObsFrames(FRED_SERIES[2], 1)}
    \cup {<<b, a>> : a \in ObsFrames(FRED_SERIES[1], MaxObsRows),
                     b \in ObsFrames(FRED_SERIES[2], 1)}

InitSave ==
  /\ spc = "start"
  /\ data_frames \in FrameLists
  /\ output_csv = <<>>
  /\ csv_written = FALSE
  /\ save_result = "none"

\* process_and_save_data.  With no frame nothing is written; a frame list
\* whose rows are all dropped is written as an empty file, after which the
\* date range of the summary raises and the function returns False.
ProcessAndSaveData ==
  /\ spc = "start"
  /\ IF data_frames = <<>>
     THEN /\ save_result' = "False"
          /\ UNCHANGED <<output_csv, csv_written>>
     ELSE /\ output_csv' = process_and_save_data(data_frames)
          /\ csv_written' = TRUE
          /\ save_result' = IF output_csv' = <<>> THEN "False" ELSE "True"
  /\ spc' = "returned"
  /\ UNCHANGED data_frames

-----------------------------------------------------------------------------
(* get_forecast_data of Market_Barometer_Processing.py.  The two model     *)
(* fits are taken as they come: each fails, or returns some forecast.      *)

MaxHorizon == 2

\* t + pd.DateOffset(months=k): the day is cut to the length of the month.
add_months(t, k) ==
  LET total == t.year * 12 + (t.month - 1) + k
      y == total \div 12
      mo == (total % 12) + 1
  IN  Timestamp(y, mo, IF t.day > DaysInMonth(y, mo) THEN DaysInMonth(y, mo) ELSE t.day)

\* pd.date_range(start=start, periods=periods, freq='MS'): the month starts
\* from start on.
date_range_ms(start, periods) ==
  LET first == IF start.day = 1 THEN start ELSE add_months([start EXCEPT !.day = 1], 1)
  IN  [i \in 1..periods |-> add_months(first, i - 1)]

\* df['Series'].unique(): the names in the order they first appear.
RECURSIVE unique(_)
unique(names) ==
  IF names = <<>> THEN <<>>
  ELSE LET u == unique(SubSeq(names, 1, Len(names) - 1))
           last == names[Len(names)]
       IN  IF \E i \in 1..Len(u) : u[i] = last THEN u ELSE Append(u, last)

series_names(df) == unique([i \in 1..Len(df) |-> df[i].Series])

\* df[df['Series'] == series_name].copy().sort_values('Date')
series_data_of(df, series_name) ==
  sort_by_series_date(SelectSeq(df, LAMBDA r : r.Series = series_name))

\* Whether Value.pct_change() is NaN at row i: the first row, and 0 / 0.
pct_change_isna(series_data, i) ==
  \/ i = 1
  \/ series_data[i].Value.na
  \/ series_data[i - 1].Value.na
  \/ series_data[i - 1].Value.v = 0 /\ series_data[i].Value.v = 0

\* len(series_data_indexed) after dropna().
pct_change_points(series_data) ==
  Cardinality({i \in 1..Len(series_data) : ~pct_change_isna(series_data, i)})

\* A variant with a floor of 11 observations.
enough_history_11(series_data) ==
  Len(series_data) >= 11 /\ pct_change_points(series_data) >= 6

\* Lines 507-517: neither continue is taken.
enough_history(series_data) ==
  Len(series_data) >= 12 /\ pct_change_points(series_data) >= 6

\* The level after t steps of current = current * (1 + pct / 100).
RECURSIVE level_after(_, _, _)
level_after(current_value, pcts, t) ==
  IF t = 0 THEN current_value
  ELSE (level_after(current_value, pcts, t - 1) * (100 + pcts[t])) \div 100

\* A variant that applies every percentage to the last observed value.
compound_from_last(current_value, pcts) ==
  [t \in 1..Len(pcts) |-> (current_value * (100 + pcts[t])) \div 100]

\* Lines 549-554 and 574-603: the levels appended step by step.
compound(current_value, pcts) ==
  [t \in 1..Len(pcts) |-> level_after(current_value, pcts, t)]

\* Lines 538-558.
baseline_values(last_value, hw, horizon_) ==
  IF hw.ok THEN compound(last_value, hw.forecast)
  ELSE [i \in 1..horizon_ |-> last_value]

\* A variant whose fallback bounds are taken from the first step only.
fallback_bounds_first_step(baseline) ==
  [upper |-> [i \in 1..Len(baseline) |-> (baseline[1] * 11) \div 10],
   lower |-> [i \in 1..Len(baseline) |-> (baseline[1] * 9) \div 10]]

\* Lines 607-608.
fallback_bounds(baseline) ==
  [upper |-> [i \in 1..Len(baseline) |-> (baseline[i] * 11) \div 10],
   lower |-> [i \in 1..Len(baseline) |-> (baseline[i] * 9) \div 10]]

\* Lines 560-608.
bound_values(last_value, baseline, sarima) ==
  IF sarima.ok
  THEN [upper |-> compound(last_value, [i \in 1..Len(sarima.conf_int) |-> sarima.conf_int[i][2]]),
        lower |-> compound(last_value, [i \in 1..Len(sarima.conf_int) |-> sarima.conf_int[i][1]])]
  ELSE fallback_bounds(baseline)

\* Lines 518-618: the forecast rows of one series.
forecast_series(series_data, horizon_, hw, sarima) ==
  LET last_value == series_data[Len(series_data)].Value.v
      last_date == series_data[Len(series_data)].Date
      future_dates == date_range_ms(add_months(last_date, 1), horizon_)
      baseline == baseline_values(last_value, hw, horizon_)
      bounds == bound_values(last_value, baseline, sarima)
  IN  [i \in 1..Len(future_dates) |->
         [Date |-> future_dates[i],
          Series |-> series_data[1].Series,
          Baseline |-> baseline[i],
          Upper |-> bounds.upper[i],
          Lower |-> bounds.lower[i]]]

\* A line of the warnings printed to stderr, and the series it names.
Warning(text, series_name) == [text |-> text, series |-> series_name]

\* The outcomes of hw_model.fit and forecast: an exception, or horizon
\* percentage changes.
HwOutcomes(horizon_) ==
  {[ok |-> FALSE, forecast |-> <<>>]}
    \cup {[ok |-> TRUE, forecast |-> f] : f \in [1..horizon_ -> {-10, 20}]}

\* The outcomes of sarima_model.fit and conf_int: an exception, or horizon
\* pairs of a lower and an upper percentage bound, the same at every step,
\* widening at the even ones, or wider than the value itself (below -100).
SarimaOutcomes(horizon_) ==
  {[ok |-> FALSE, conf_int |-> <<>>],
   [ok |-> TRUE, conf_int |-> [i \in 1..horizon_ |-> <<-10, 10>>]],
   [ok |-> TRUE, conf_int |-> [i \in 1..horizon_ |->
                                 IF i % 2 = 0 THEN <<-20, 30>> ELSE <<0, 10>>]],
   [ok |-> TRUE, conf_int |-> [i \in 1..horizon_ |-> <<-300, -100>>]]}

\* The history of one series: n monthly observations up to last_date, the
\* first zeros of them 0.
history_rows(series_name, n, zeros, last_date) ==
  [i \in 1..n |->
     [Date |-> add_months(last_date, i - n),
      Value |-> IF i <= zeros THEN Num(0) ELSE Num(1000000 * (1 + (i % 2))),
      Series |-> series_name,
      Source |-> "FRED"]]

\* The histories of the first series: 11 or 12 observations, and 12 of
\* which 6 or 7 are zeros (6 or 5 percentage changes).
FirstHistories ==
  {history_rows(FRED_SERIES[1], h[1], h[2], d) :
     h \in {<<11, 0>>, <<12, 0>>, <<12, 6>>, <<12, 7>>},
     d \in {Timestamp(2025, 11, 1), Timestamp(2025, 11, 15)}}

SecondHistory == history_rows(FRED_SERIES[2], 12, 0, Timestamp(2025, 12, 1))

InitForecast ==
  /\ gpc = "loop"
  /\ horizon \in 1..MaxHorizon
  /\ history \in UNION {{a, a \o SecondHistory, SecondHistory \o a} : a \in FirstHistories}
  /\ series_i = 1
  /\ forecast_rows = <<>>
  /\ fit_results = <<>>
  /\ stderr = <<>>
  /\ future_df = <<>>
  /\ future_csv_written = FALSE

\* One pass of the loop of lines 504-618.
ForecastSeries ==
  /\ gpc = "loop"
  /\ LET series_name == series_names(history)[series_i]
         series_data == series_data_of(history, series_name)
     IN  IF ~enough_history(series_data)
         THEN UNCHANGED <<forecast_rows, fit_results, stderr>>
         ELSE \E hw \in HwOutcomes(horizon), sarima \in SarimaOutcomes(horizon) :
                /\ forecast_rows' =
                     forecast_rows \o forecast_series(series_data, horizon, hw, sarima)
                /\ fit_results' =
                     Append(fit_results,
                            [Series |-> series_name, hw |-> hw, sarima |-> sarima,
                             last_value |-> series_data[Len(series_data)].Value.v])
                /\ stderr' =
                     stderr
                       \o (IF hw.ok THEN <<>>
                           ELSE <<Warning("Holt-Winters failed", series_name)>>)
                       \o (IF sarima.ok THEN <<>>
                           ELSE <<Warning("SARIMA failed", series_name)>>)
  /\ IF series_i < Len(series_names(history))
     THEN series_i' = series_i + 1 /\ gpc' = "loop"
     ELSE series_i' = series_i /\ gpc' = "collect"
  /\ UNCHANGED <<horizon, history, future_df, future_csv_written>>

\* Lines 624-640: the rows sorted and saved, or the warning and an empty
\* frame.
SaveForecast ==
  /\ gpc = "collect"
  /\ IF forecast_rows = <<>>
     THEN /\ stderr' = Append(stderr, Warning("No forecast data generated", ""))
          /\ UNCHANGED <<future_df, future_csv_written>>
     ELSE /\ future_df' = sort_by_series_date(forecast_rows)
          /\ future_csv_written' = TRUE
          /\ UNCHANGED stderr
  /\ gpc' = "returned"
  /\ UNCHANGED <<horizon, history, series_i, forecast_rows, fit_results>>

-----------------------------------------------------------------------------
(* market_barometer_view.py: a pass of render after a change of the date   *)
(* selector, as far as the two CSV files and the forecast cache go.        *)

MaxClock == 3

NoForecastCsv == [exists |-> FALSE, empty |-> TRUE, mtime |-> 0]

\* A variant that also regenerates when the two files are of the same time.
should_regenerate_not_newer(forecast, source_mtime) ==
  IF ~forecast.exists \/ forecast.empty THEN TRUE
  ELSE source_mtime >= forecast.mtime

\* render, lines 918-928.
should_regenerate(forecast, source_mtime) ==
  IF ~forecast.exists \/ forecast.empty THEN TRUE
  ELSE source_mtime > forecast.mtime

\* What a pass has done, for the record.
Pass(kind, selection, forecast, source_mtime, requested, generated, rewritten) ==
  [kind |-> kind,
   selection |-> selection,
   pre_absent_or_empty |-> ~forecast.exists \/ forecast.empty,
   pre_source_newer |-> forecast.exists /\ source_mtime > forecast.mtime,
   requested |-> requested,
   generated |-> generated,
   rewritten |-> rewritten]

NoPass == Pass("none", "none", NoForecastCsv, 0, FALSE, FALSE, FALSE)

ForecastCsvs(t) ==
  {NoForecastCsv}
    \cup {[exists |-> TRUE, empty |-> e, mtime |-> mt] : e \in BOOLEAN, mt \in 1..t}

InitPage ==
  /\ clock = 2
  /\ inflation_mtime \in 1..2
  /\ refresh_due \in BOOLEAN
  /\ forecast_csv \in ForecastCsvs(2)
  /\ forecast_cache = {}
  /\ last_pass = NoPass

\* A pass of render in which the key check passes and the observation CSV is
\* at least 15 days old (lines 788-797): main fetches and, if it has data,
\* rewrites the observation CSV and runs get_forecast_data on it; the caches
\* are cleared and the page is run again.
RenderAutoRefresh ==
  /\ refresh_due
  /\ clock < MaxClock
  /\ \E selection \in {"invalid", "historical", "future"},
        fetched \in BOOLEAN, has_rows \in BOOLEAN :
       /\ last_pass' = Pass("refresh", selection, forecast_csv, inflation_mtime,
                            FALSE, fetched, fetched /\ has_rows)
       /\ IF fetched
          THEN /\ inflation_mtime' = clock + 1
               /\ refresh_due' = FALSE
               /\ forecast_csv' =
                    IF has_rows
                    THEN [exists |-> TRUE, empty |-> FALSE, mtime |-> clock + 1]
                    ELSE forecast_csv
               /\ clock' = clock + 1
          ELSE UNCHANGED <<inflation_mtime, refresh_due, forecast_csv, clock>>
  /\ forecast_cache' = {}

\* A pass of render that does not refresh (the key check fails, or the
\* observation CSV is younger than 15 days), lines 811-970.  Only a valid
\* range that ends after the last observation reaches the forecast block;
\* generate_forecast_data_cached runs get_forecast_data unless it holds a
\* result for the same observations.
Render ==
  /\ clock < MaxClock
  /\ \E selection \in {"invalid", "historical", "future"}, has_rows \in BOOLEAN :
       LET requested == /\ selection = "future"
                        /\ should_regenerate(forecast_csv, inflation_mtime)
           generated == requested /\ inflation_mtime \notin forecast_cache
           rewritten == generated /\ has_rows
       IN  /\ last_pass' = Pass("render", selection, forecast_csv, inflation_mtime,
                                requested, generated, rewritten)
           /\ forecast_cache' = IF generated
                                THEN forecast_cache \cup {inflation_mtime}
                                ELSE forecast_cache
           /\ forecast_csv' = IF rewritten
                              THEN [exists |-> TRUE, empty |-> FALSE, mtime |-> clock + 1]
                              ELSE forecast_csv
           /\ clock' = IF rewritten THEN clock + 1 ELSE clock
  /\ UNCHANGED <<inflation_mtime, refresh_due>>

\* Fifteen days go by without a fetch.
DaysPass ==
  /\ ~refresh_due
  /\ refresh_due' = TRUE
  /\ UNCHANGED <<clock, inflation_mtime, forecast_csv, forecast_cache, last_pass>>

-----------------------------------------------------------------------------
(* The reading of a reference CSV: the save of an uploaded file by         *)
(* run_processing_script and load_data of Variable_Pricing_VBCS.py.  A     *)
(* file is its bytes, a text its code points.                              *)

MaxBytes == 3

IsContinuation(b) == b >= 128 /\ b <= 191

\* bytes.decode('utf-8'): the code points, or that it raises
\* UnicodeDecodeError (sequences of one, two and three bytes).
RECURSIVE utf8_decode(_)
utf8_decode(bytes) ==
  IF bytes = <<>> THEN [ok |-> TRUE, text |-> <<>>]
  ELSE LET b == Head(bytes)
           width == IF b < 128 THEN 1
                    ELSE IF b >= 194 /\ b <= 223 THEN 2
                    ELSE IF b >= 224 /\ b <= 239 THEN 3
                    ELSE 0
           valid == /\ width > 0
                    /\ Len(bytes) >= width
                    /\ \A i \in 2..width : IsContinuation(bytes[i])
                    /\ b = 224 => bytes[2] >= 160
                    /\ b = 237 => bytes[2] <= 159
           cp == IF width = 1 THEN b
                 ELSE IF width = 2 THEN (b - 192) * 64 + (bytes[2] - 128)
                 ELSE (b - 224) * 4096 + (bytes[2] - 128) * 64 + (bytes[3] - 128)
       IN  IF ~valid THEN [ok |-> FALSE, text |-> <<>>]
           ELSE LET rest == utf8_decode(SubSeq(bytes, width + 1, Len(bytes)))
                IN  [ok |-> rest.ok, text |-> IF rest.ok THEN <<cp>> \o rest.text ELSE <<>>]

\* bytes.decode('latin-1'): every byte is its code point.
latin1_decode(bytes) == bytes

\* str.encode('utf-8') of code points below 2048.
RECURSIVE utf8_encode(_)
utf8_encode(text) ==
  IF text = <<>> THEN <<>>
  ELSE (IF Head(text) < 128 THEN <<Head(text)>>
        ELSE <<192 + (Head(text) \div 64), 128 + (Head(text) % 64)>>)
         \o utf8_encode(Tail(text))

\* re.sub('[\x80-\x9F]', '', s), on bytes and on text alike.
strip_c1(s) == SelectSeq(s, LAMBDA c : ~(c >= 128 /\ c <= 159))

\* re.sub(r'[\x00-\x08\x0B\x0C\x0E-\x1F\x7F]', '', s)
strip_c0(s) ==
  SelectSeq(s, LAMBDA c : ~(c <= 8 \/ c = 11 \/ c = 12 \/ (c >= 14 /\ c <= 31) \/ c = 127))

CustomerReport == "Customer_Extract_Report.csv"

\* run_processing_script, lines 226-264: the bytes written for an uploaded
\* file.  Latin-1 decodes every file, so the later branches are not reached.
saved_bytes(file_name, file_data) ==
  IF utf8_decode(file_data).ok THEN file_data
  ELSE IF file_name = CustomerReport
       THEN utf8_encode(strip_c0(strip_c1(latin1_decode(file_data))))
       ELSE utf8_encode(latin1_decode(file_data))

\* load_data, lines 498-521: pd.read_csv has no parameter 'errors', so the
\* call of line 514 raises TypeError after the cleaned copy is written; the
\* except branch goes on to the regular reading and the copy is left behind.
special_handling(file_name, bytes) ==
  IF file_name = CustomerReport
  THEN [tried |-> TRUE, returned |-> FALSE, cleaned_copy |-> strip_c1(bytes)]
  ELSE [tried |-> FALSE, returned |-> FALSE, cleaned_copy |-> <<>>]

\* load_data, lines 524-537: the encodings in order; latin-1 reads any file.
regular_reading(bytes) ==
  IF utf8_decode(bytes).ok
  THEN [encoding |-> "utf-8", text |-> utf8_decode(bytes).text]
  ELSE [encoding |-> "latin-1", text |-> latin1_decode(bytes)]

\* The bytes of the model: A, the cp1252 right quote 0x92, e acute in
\* cp1252 (0xE9), and the two bytes of e acute in UTF-8 (0xC3 0xA9).
BytePool == {65, 146, 233, 195, 169}

FileContents == UNION {[1..n -> BytePool] : n \in 1..MaxBytes}

InitLoad ==
  /\ lpc \in {"upload", "script"}
  /\ ref_name \in {CustomerReport, "UOM.csv"}
  /\ ref_data \in FileContents
  /\ file_on_disk = IF lpc = "script" THEN ref_data ELSE <<>>
  /\ cleaned_copy_left = FALSE
  /\ encoding_used = "none"
  /\ df_text = <<>>

\* run_processing_script: the uploaded file is written to the temporary
\* folder the script reads.
SaveUploadedFile ==
  /\ lpc = "upload"
  /\ file_on_disk' = saved_bytes(ref_name, ref_data)
  /\ lpc' = "script"
  /\ UNCHANGED <<ref_name, ref_data, cleaned_copy_left, encoding_used, df_text>>

\* load_data on the file.
LoadData ==
  /\ lpc = "script"
  /\ cleaned_copy_left' = special_handling(ref_name, file_on_disk).tried
  /\ encoding_used' = regular_reading(file_on_disk).encoding
  /\ df_text' = regular_reading(file_on_disk).text
  /\ lpc' = "loaded"
  /\ UNCHANGED <<ref_name, ref_data, file_on_disk>>

-----------------------------------------------------------------------------
(* process_uploaded_files as one run: the required files, the columns of   *)
(* the reference data, and the save of pricing_data.parquet.               *)

MaxAbsentColumns == 1

required_files ==
  {"Product_Class_Plant.csv", "Plant_Class_Plant Fees.csv", "Product_Milk Base Cost.csv",
   "Product_Processing_Pkg_Ing.csv", "Sell-to_Volume Bracket_Fee.csv",
   "Custom Label_Volume Bracket_Fee.csv", "Pallet_Fee.csv",
   "Delivery_Miles Tier_Drop Size Tier_Fee.csv", "Product_UOM.csv"}

\* Lines 183-186.
missing_files(names) == required_files \ names

\* The cost columns of the reference data, by the clean names of the result.
CostColumns ==
  {"Base Milk Cost per Gallon", "Class I Location & Plant Fees ($/Gal)",
   "Total Processing ($/Gal)", "Packaging ($/Gal)", "Ingredients ($/Gal)",
   "Sell-to Volume Fee ($/Gal)", "Custom Label Fee ($/Gal)", "Mixed Pallet Fee ($/Gal)",
   "Delivery Charge ($/Gal)"}

\* The columns the merges of lines 228 and 236 select by name from their
\* table: df[[...]] raises KeyError when one of them is not a column.
SelectedByName ==
  {"Base Milk Cost per Gallon", "Total Processing ($/Gal)", "Packaging ($/Gal)",
   "Ingredients ($/Gal)"}

\* Lines 216-293: whether the joins raise.
joins_raise(absent) == absent \cap SelectedByName # {}

\* Lines 295-366: a cost column of the result, from its cell in the joined
\* row: parse_dollar of the cell, or 0.0 when the column is not there.
cost_value(col, absent, cell) == IF col \in absent THEN 0 ELSE parse_dollar(cell)

\* Lines 90-120: brotli, gzip and snappy with pyarrow, then fastparquet.
compression_options ==
  <<<<"brotli", "pyarrow">>, <<"gzip", "pyarrow">>, <<"snappy", "pyarrow">>,
    <<"None", "fastparquet">>>>

\* The cost cells of the model: dollar text, a bare number, text that is no
\* number, a missing cell.
CostCells == {"$1.50", " 2 ", "TBD", NaN}

AbsentColumnSets == {s \in SUBSET CostColumns : Cardinality(s) <= MaxAbsentColumns}

\* The uploads of the model: the nine files, the nine without one, none.
UploadSets ==
  {required_files} \cup {required_files \ {f} : f \in required_files}
    \cup {{"Notes.csv"}}

InitParquet ==
  /\ rpc = "start"
  /\ uploaded_names \in UploadSets
  /\ absent_columns \in AbsentColumnSets
  /\ other_columns_present \in BOOLEAN
  /\ cost_cell \in CostCells
  /\ earlier_parquet \in {"absent", "earlier"}
  /\ parquet_file = earlier_parquet
  /\ cost_columns = [c \in CostColumns |-> 0]
  /\ attempt = 1
  /\ failed_step = "none"
  /\ run_result = "none"

varsParquetIn ==
  <<uploaded_names, absent_columns, other_columns_present, cost_cell, earlier_parquet>>

\* Lines 168-186: the uploads are saved; a missing required file returns
\* False.
CheckRequiredFiles ==
  /\ rpc = "start"
  /\ IF missing_files(uploaded_names) # {}
     THEN /\ run_result' = "False"
          /\ failed_step' = "missing_files"
          /\ rpc' = "returned"
     ELSE /\ rpc' = "loaded"
          /\ UNCHANGED <<run_result, failed_step>>
  /\ UNCHANGED <<varsParquetIn, parquet_file, cost_columns, attempt>>

\* Lines 188-436: the reads, the joins and the cost columns.  An exception
\* is caught at line 503 and returns False.
JoinAndPrice ==
  /\ rpc = "loaded"
  /\ IF joins_raise(absent_columns)
     THEN /\ run_result' = "False"
          /\ failed_step' = "joins"
          /\ rpc' = "returned"
          /\ UNCHANGED cost_columns
     ELSE /\ cost_columns' = [c \in CostColumns |-> cost_value(c, absent_columns, cost_cell)]
          /\ rpc' = "priced"
          /\ UNCHANGED <<run_result, failed_step>>
  /\ UNCHANGED <<varsParquetIn, parquet_file, attempt>>

\* Lines 438-466: the temp directory, the column order, and the removal of
\* the parquet of an earlier run.
RemoveExistingParquet ==
  /\ rpc = "priced"
  /\ \E mkdir_ok \in BOOLEAN :
       IF ~mkdir_ok
       THEN /\ run_result' = "False"
            /\ failed_step' = "mkdir"
            /\ rpc' = "returned"
            /\ UNCHANGED parquet_file
       ELSE IF ~other_columns_present
       THEN /\ run_result' = "False"
            /\ failed_step' = "column_order"
            /\ rpc' = "returned"
            /\ UNCHANGED parquet_file
       ELSE /\ parquet_file' = "absent"
            /\ rpc' = "saving"
            /\ UNCHANGED <<run_result, failed_step>>
  /\ UNCHANGED <<varsParquetIn, cost_columns, attempt>>

\* save_parquet_with_fallback, one pass of its loop: to_parquet writes the
\* file or raises.
ToParquet ==
  /\ rpc = "saving"
  /\ \E written \in BOOLEAN :
       IF written
       THEN /\ parquet_file' = "new"
            /\ run_result' = "True"
            /\ rpc' = "returned"
            /\ UNCHANGED <<attempt, failed_step>>
       ELSE IF attempt < Len(compression_options)
       THEN /\ attempt' = attempt + 1
            /\ UNCHANGED <<parquet_file, run_result, failed_step, rpc>>
       ELSE /\ run_result' = "False"
            /\ failed_step' = "save"
            /\ rpc' = "returned"
            /\ UNCHANGED <<parquet_file, attempt>>
  /\ UNCHANGED <<varsParquetIn, cost_columns>>

-----------------------------------------------------------------------------
(* The Variable pricing run of one session: run_variable_pricing calls     *)
(* run_processing_script, which runs Variable_Pricing_VBCS.py as a         *)
(* subprocess, for the generation and then for the Excel automation.  A    *)
(* file of the output directory is the run that wrote it and its rows.     *)

MaxRuns == 2
MaxCsvRows == 1

output_file_names == <<"urm_vbcs.csv", "winco_vbcs.csv", "batch_vbcs.csv">>

OutputNames == {output_file_names[i] : i \in 1..Len(output_file_names)}

NoCsv == [exists |-> FALSE, run |-> 0, rows |-> 0]

CsvOf(run, rows) == [exists |-> TRUE, run |-> run, rows |-> rows]

\* generate_vbcs_files: every check of a required file and every exception
\* of the processing returns six None values; main then returns, and the
\* script ends with return code 0.
script_returncode(urm_output_path) == 0

\* run_processing_script, lines 494-593 and 594-627: what it returns after
\* the subprocess ended.  The output files are whatever the output
\* directory holds under the names of the script's outputs.
collect_outputs(returncode, files, run) ==
  IF returncode # 0
  THEN [success |-> FALSE, reason |-> "Script failed", frames |-> {}]
  ELSE LET found == {n \in OutputNames : files[n].exists}
       IN  IF found # {}
           THEN [success |-> TRUE, reason |-> "Generated",
                 frames |-> {<<n, files[n].run>> : n \in found}]
           ELSE [success |-> TRUE, reason |-> "no output files were generated",
                 frames |-> {}]

NotReturned == [success |-> FALSE, reason |-> "not run", frames |-> {}]

\* A variant that starts the automation for every file that exists.
automation_guard_exists(file, frames_read) == file.exists /\ frames_read

\* run_excel_automation, lines 383 and 415: the file exists, both frames
\* were read, and the frame has a row.
automation_guard(file, frames_read) == file.exists /\ frames_read /\ file.rows > 0

AutomationGroups == {"urm_vbcs.csv", "winco_vbcs.csv"}

NoAutomation == [ran |-> FALSE, invoked |-> {}, failed |-> {}]

InitScript ==
  /\ vpc = "page"
  /\ platform \in {"win32", "linux"}
  /\ run_no = 0
  /\ \E old \in BOOLEAN :
       out_files = [n \in OutputNames |-> IF old THEN CsvOf(0, 1) ELSE NoCsv]
  /\ csv_generated = FALSE
  /\ pending = <<>>
  /\ returned = NotReturned
  /\ session_cache = {}
  /\ automation = NoAutomation

\* run_variable_pricing, lines 454-471, and run_processing_script up to the
\* start of the subprocess; generate_vbcs_files up to line 170.  The script
\* has its required inputs and reaches the writes, or it does not.
RunScript ==
  /\ vpc = "page"
  /\ run_no < MaxRuns
  /\ run_no' = run_no + 1
  /\ \E ok \in BOOLEAN :
       /\ csv_generated' = ok
       /\ IF ok
          THEN /\ \E rows \in [OutputNames -> 0..MaxCsvRows] :
                    pending' = [i \in 1..Len(output_file_names) |->
                                  <<output_file_names[i], rows[output_file_names[i]]>>]
               /\ vpc' = "writing"
          ELSE /\ pending' = <<>>
               /\ vpc' = "exited"
  /\ UNCHANGED <<platform, out_files, returned, session_cache, automation>>

\* generate_vbcs_files, lines 176-178: one to_csv.
WriteCsv ==
  /\ vpc = "writing"
  /\ out_files' = [out_files EXCEPT ![Head(pending)[1]] = CsvOf(run_no, Head(pending)[2])]
  /\ pending' = Tail(pending)
  /\ vpc' = IF Tail(pending) = <<>> THEN "exited" ELSE "writing"
  /\ UNCHANGED <<platform, run_no, csv_generated, returned, session_cache, automation>>

\* run_processing_script, lines 494-627, and run_variable_pricing, lines
\* 473-479: the return and the store in the session cache.
CollectOutputs ==
  /\ vpc = "exited"
  /\ returned' = collect_outputs(script_returncode(csv_generated), out_files, run_no)
  /\ session_cache' = IF returned'.success /\ returned'.frames # {}
                      THEN session_cache \cup {f[1] : f \in returned'.frames}
                      ELSE session_cache
  /\ vpc' = "page"
  /\ UNCHANGED <<platform, run_no, csv_generated, pending, out_files, automation>>

\* run_variable_pricing, lines 557-593, and run_excel_automation: the
\* button is there when the cache holds a URM or Winco frame; each group's
\* automation reads its CSV and may fail.
RunExcelAutomation ==
  /\ vpc = "page"
  /\ session_cache \cap AutomationGroups # {}
  /\ \E frames_read \in BOOLEAN, failing \in SUBSET AutomationGroups :
       LET invoked == IF platform # "win32" THEN {}
                      ELSE {g \in AutomationGroups :
                              automation_guard(out_files[g], frames_read)}
       IN  automation' = [ran |-> TRUE, invoked |-> invoked,
                          failed |-> invoked \cap failing]
  /\ UNCHANGED <<vpc, platform, run_no, csv_generated, pending, out_files, returned,
                 session_cache>>

-----------------------------------------------------------------------------
(* pricing_execution_automation_view.py: the session cache of the VBCS     *)
(* outputs.  Times are minutes; a cached frame is the time of the run that *)
(* produced it.                                                            *)

MaxNow == 7
MaxRunMinutes == 2

\* timedelta(minutes=5) of line 64.
cutoff_minutes == 5

\* The outputs a successful run of each tool returns.
ToolOutputs ==
  [Fixed |-> {"fixed_vbcs.csv"},
   KS |-> {"ks_htst_vbcs.csv"},
   Variable |-> {"urm_vbcs.csv", "winco_vbcs.csv", "batch_vbcs.csv"}]

Tools == DOMAIN ToolOutputs

\* _store_vbcs_in_cache, and the same loop of lines 225-233 and 347-355: the
\* entries of a dict after the update with one value under every name.
store(entries, names, value) ==
  [f \in DOMAIN entries \cup names |-> IF f \in names THEN value ELSE entries[f]]

\* A variant that removes the entries of twice the age.
files_to_remove_late(timestamps, current_time) ==
  {f \in DOMAIN timestamps : timestamps[f] < current_time - 2 * cutoff_minutes}

\* _cleanup_vbcs_cache, lines 63-68.
files_to_remove(timestamps, current_time) ==
  {f \in DOMAIN timestamps : timestamps[f] < current_time - cutoff_minutes}

\* _cleanup_vbcs_cache, lines 69-73: a dict without the removed names.
without(entries, names) == [f \in DOMAIN entries \ names |-> entries[f]]

EmptyDict == [f \in {} |-> 0]

NoOffer == [at |-> 0, cleaned_at |-> 0, files |-> {}]

InitCache ==
  /\ now = 0
  /\ vbcs_cache = EmptyDict
  /\ vbcs_cache_timestamps = EmptyDict
  /\ cleaned_at = 0
  /\ rerun_pending = FALSE
  /\ offer = NoOffer

\* render without a run: the cleanup of line 107, then the tool's download
\* section on the cache.
RenderPage ==
  /\ LET old == files_to_remove(vbcs_cache_timestamps, now)
     IN  /\ vbcs_cache' = without(vbcs_cache, old)
         /\ vbcs_cache_timestamps' = without(vbcs_cache_timestamps, old)
         /\ offer' = [at |-> now, cleaned_at |-> now,
                      files |-> {<<f, vbcs_cache'[f]>> : f \in DOMAIN vbcs_cache'}]
  /\ cleaned_at' = now
  /\ rerun_pending' = FALSE
  /\ UNCHANGED now

\* render with the tool's Run button pressed: the cleanup of line 107, the
\* script, which takes its time, then the store and st.rerun() on success,
\* or the error and the download section on failure.  run_variable_pricing
\* cleans up once more after its store.
RenderAndRun ==
  /\ ~rerun_pending
  /\ \E tool \in Tools, minutes \in 0..MaxRunMinutes, success \in BOOLEAN :
       /\ now + minutes <= MaxNow
       /\ now' = now + minutes
       /\ LET old == files_to_remove(vbcs_cache_timestamps, now)
              cache1 == without(vbcs_cache, old)
              stamps1 == without(vbcs_cache_timestamps, old)
          IN  IF success
              THEN LET cache2 == store(cache1, ToolOutputs[tool], now')
                       stamps2 == store(stamps1, ToolOutputs[tool], now')
                       again == IF tool = "Variable"
                                THEN files_to_remove(stamps2, now') ELSE {}
                   IN  /\ vbcs_cache' = without(cache2, again)
                       /\ vbcs_cache_timestamps' = without(stamps2, again)
                       /\ cleaned_at' = IF tool = "Variable" THEN now' ELSE now
                       /\ offer' = NoOffer
                       /\ rerun_pending' = TRUE
              ELSE /\ vbcs_cache' = cache1
                   /\ vbcs_cache_timestamps' = stamps1
                   /\ cleaned_at' = now
                   /\ offer' = [at |-> now', cleaned_at |-> now,
                                files |-> {<<f, cache1[f]>> : f \in DOMAIN cache1}]
                   /\ rerun_pending' = FALSE

\* A minute passes with the page as it is.
MinutePasses ==
  /\ ~rerun_pending
  /\ now < MaxNow
  /\ now' = now + 1
  /\ UNCHANGED <<vbcs_cache, vbcs_cache_timestamps, cleaned_at, rerun_pending, offer>>

-----------------------------------------------------------------------------
(* cleanup_old_files of processing_helpers.py and _cleanup_old_input_files *)
(* of data_helpers.py, on a directory of CSV files.  Times are minutes.    *)

MaxDirFiles == 3

OutputFileNames ==
  {"urm_vbcs.csv", "winco_vbcs.csv", "batch_vbcs.csv", "fixed_vbcs.csv",
   "ks_htst_vbcs.csv", "combined_all_vbcs.csv"}

input_file_patterns ==
  {"Execution_final.csv", "HTST Pricing_UOMS_v1.csv", "Milk_Market_Index.csv",
   "Effective_Date_Assumptions.csv", "Customer_Extract_Report.csv", "Old_Price_Build.csv",
   "Costco_HTST_Pricing.csv", "Costco_HTST_Region_Lookup.csv"}

\* The file names of the model, in the order the directory lists them.
DirNames ==
  <<"Execution_final.csv", "batch_vbcs.csv", "backup_urm_vbcs.csv", "combined_all_vbcs.csv",
    "fixed_vbcs.csv", "ks_htst_vbcs.csv", "notes.csv", "urm_vbcs.csv", "winco_vbcs.csv">>

DirNameSet == {DirNames[i] : i \in 1..Len(DirNames)}

\* any(name in file_path.name for name in [...]), for the names of the model.
is_output_file == [f \in DirNameSet |-> \E name \in OutputFileNames : Contains(f, name)]

is_input_file == [f \in DirNameSet |-> \E pattern \in input_file_patterns : Contains(f, pattern)]

\* A variant that deletes every old file.
should_unlink_any_old(f, file_mtime, cutoff_time) == file_mtime < cutoff_time

\* cleanup_old_files, lines 158-159.
should_unlink(f, file_mtime, cutoff_time) ==
  ~is_output_file[f] /\ file_mtime < cutoff_time

\* _cleanup_old_input_files, lines 98-101.
should_unlink_input(f, file_mtime, cutoff_time) ==
  (is_input_file[f] \/ ~is_output_file[f]) /\ file_mtime < cutoff_time

\* The for loop of either routine over the listed files: a file is deleted
\* when the routine's test holds and unlink does not raise; an exception is
\* caught inside the loop, which goes on with the next file.
RECURSIVE cleanup_loop(_, _, _)
cleanup_loop(csv_files, files, selected) ==
  IF csv_files = <<>> THEN [deleted |-> {}, errors |-> {}]
  ELSE LET f == Head(csv_files)
           rest == cleanup_loop(Tail(csv_files), files, selected)
       IN  IF ~selected[f] THEN rest
           ELSE IF files[f].locked
           THEN [rest EXCEPT !.errors = @ \cup {f}]
           ELSE [rest EXCEPT !.deleted = @ \cup {f}]

\* directory.glob("*.csv")
glob_csv(files) == SelectSeq(DirNames, LAMBDA f : f \in DOMAIN files)

cleanup_old_files(files, current_time, max_age_minutes) ==
  cleanup_loop(glob_csv(files), files,
               [f \in DOMAIN files |->
                  should_unlink(f, files[f].mtime, current_time - max_age_minutes)])

cleanup_old_input_files(files, current_time, max_age_minutes) ==
  cleanup_loop(glob_csv(files), files,
               [f \in DOMAIN files |->
                  should_unlink_input(f, files[f].mtime, current_time - max_age_minutes)])

\* The time of the cleanup and the modification times of the model: six
\* minutes and five minutes before it.
CleanupTime == 10
Mtimes == {4, 5}

Directories ==
  UNION {[names -> [mtime : Mtimes, locked : BOOLEAN]] :
           names \in {s \in SUBSET DirNameSet : Cardinality(s) <= MaxDirFiles}}

NoCleanup == [routine |-> "none", max_age_minutes |-> 0, before |-> <<>>,
              deleted |-> {}, errors |-> {}]

InitCleanup ==
  /\ dir_files \in Directories
  /\ last_cleanup = NoCleanup

\* cleanup_old_files(directory, max_age_minutes).
CleanupOldFiles ==
  /\ last_cleanup.routine # "cleanup_old_files"
  /\ \E max_age_minutes \in {2, 5} :
       LET r == cleanup_old_files(dir_files, CleanupTime, max_age_minutes)
       IN  /\ dir_files' = [f \in DOMAIN dir_files \ r.deleted |-> dir_files[f]]
           /\ last_cleanup' = [routine |-> "cleanup_old_files",
                               max_age_minutes |-> max_age_minutes, before |-> dir_files,
                               deleted |-> r.deleted, errors |-> r.errors]

\* _cleanup_old_input_files(directory, max_age_minutes).
CleanupOldInputFiles ==
  /\ last_cleanup.routine # "_cleanup_old_input_files"
  /\ \E max_age_minutes \in {2, 5} :
       LET r == cleanup_old_input_files(dir_files, CleanupTime, max_age_minutes)
       IN  /\ dir_files' = [f \in DOMAIN dir_files \ r.deleted |-> dir_files[f]]
           /\ last_cleanup' = [routine |-> "_cleanup_old_input_files",
                               max_age_minutes |-> max_age_minutes, before |-> dir_files,
                               deleted |-> r.deleted, errors |-> r.errors]

-----------------------------------------------------------------------------
(* Properties of compare_volume_tiers and of the price derivation.         *)

\* The place of a bracket letter in A..E, blanks and case aside; 0 for any
\* other cell.
TierRank(cell) ==
  LET t == RemoveChar(cell, " ")
      ks == {k \in 1..5 : t \in {CharAt("ABCDE", k), CharAt("abcde", k)}}
  IN  IF ks = {} THEN 0 ELSE CHOOSE k \in ks : TRUE

\* The volume-tier rule on a row of the cartesian join.
TierRuleHolds(r) ==
  \/ isna(r.SellTo)
  \/ isna(r.CustomLabel)
  \/ TierRank(r.CustomLabel) >= TierRank(r.SellTo)

AlphaOrMissing(cell) == isna(cell) \/ TierRank(cell) > 0

\* The columns of a joined row, as a later frame still holds them.
SameJoinedRow(p, r) == \A f \in DOMAIN r : p[f] = r[f]

\* C1: with bracket letters A..E, the filter keeps a combination of the
\* cartesian join exactly when a bracket is missing or the custom label letter
\* is not before the sell-to letter; every row that goes on to pricing obeys
\* the rule and every combination that obeys it goes on.
C1_VolumeTierFilter ==
  /\ pc \in {"filtered", "priced", "deduped", "done"} =>
       \A i \in 1..Len(cartesian) :
         (AlphaOrMissing(cartesian[i].SellTo) /\ AlphaOrMissing(cartesian[i].CustomLabel))
           => (tier_mask[i] <=> TierRuleHolds(cartesian[i]))
  /\ pc \in {"priced", "deduped", "done"} =>
       /\ \A j \in 1..Len(priced) : TierRuleHolds(priced[j])
       /\ \A i \in 1..Len(cartesian) :
            TierRuleHolds(cartesian[i]) =>
              \E j \in 1..Len(priced) : SameJoinedRow(priced[j], cartesian[i])

\* C1's case: the filter has dropped a combination and kept one whose custom
\* label letter is after the sell-to letter.
C1_Witness ==
  /\ pc = "filtered"
  /\ \E i \in 1..Len(cartesian) : ~tier_mask[i]
  /\ \E i \in 1..Len(cartesian) :
       /\ tier_mask[i]
       /\ TierRank(cartesian[i].SellTo) > 0
       /\ TierRank(cartesian[i].CustomLabel) > TierRank(cartesian[i].SellTo)

BothNumeric(s, c) == ~isna(s) /\ ~isna(c) /\ FloatParses(s) /\ FloatParses(c)

\* C2 as stated: when either tier is a pure number, the numeric comparison
\* decides.
C2_EitherNumericDecidesNumerically ==
  (/\ cvt_branch # "none"
   /\ ~isna(sell_to_tier)
   /\ ~isna(custom_label_tier)
   /\ (FloatParses(sell_to_tier) \/ FloatParses(custom_label_tier)))
    => cvt_branch = "numeric"

\* C2 amended: the numeric comparison decides exactly when both tiers are
\* numbers, and then custom label number >= sell-to number; with two present
\* tiers of which at most one is a number, the trimmed upper-cased strings are
\* compared.
C2_BothNumericDecidesNumerically ==
  cvt_branch # "none" =>
    /\ (cvt_branch = "numeric") <=> BothNumeric(sell_to_tier, custom_label_tier)
    /\ BothNumeric(sell_to_tier, custom_label_tier) =>
         (cvt_result <=> FloatVal(custom_label_tier) >= FloatVal(sell_to_tier))
    /\ (/\ ~isna(sell_to_tier)
        /\ ~isna(custom_label_tier)
        /\ ~BothNumeric(sell_to_tier, custom_label_tier)) =>
         /\ cvt_branch = "alpha"
         /\ cvt_result <=> StrGE(upper(strip(custom_label_tier)),
                                 upper(strip(sell_to_tier)))

\* C2's case: brackets 9 and 10, which the string order and the numeric order
\* rank differently, compared as numbers.
C2_Witness ==
  /\ sell_to_tier = "9"
  /\ custom_label_tier = "10"
  /\ cvt_branch = "numeric"
  /\ cvt_result = TRUE

PricedRows ==
  CASE pc = "priced" -> priced
    [] pc = "deduped" -> deduped
    [] pc = "done" -> final_result
    [] OTHER -> <<>>

DedupedRows == IF pc = "done" THEN final_result ELSE deduped

\* C4: after the deduplication no two rows share the key tuple, every key of
\* the priced rows is kept, and the row kept for a key is the first priced row
\* with that key.
C4_FirstRowPerKey ==
  pc \in {"deduped", "done"} =>
    /\ \A i, j \in 1..Len(DedupedRows) :
         key_columns(DedupedRows[i]) = key_columns(DedupedRows[j]) => i = j
    /\ \A i \in 1..Len(priced) :
         \E j \in 1..Len(DedupedRows) :
           key_columns(DedupedRows[j]) = key_columns(priced[i])
    /\ \A j \in 1..Len(DedupedRows) :
         \E i \in 1..Len(priced) :
           /\ priced[i] = DedupedRows[j]
           /\ \A k \in 1..(i - 1) : key_columns(priced[k]) # key_columns(priced[i])

\* C4's case: two priced rows of one key that differ (two base-cost months),
\* and the deduplicated rows saved.
C4_Witness ==
  /\ pc = "done"
  /\ \E i, j \in 1..Len(priced) :
       /\ i < j
       /\ key_columns(priced[i]) = key_columns(priced[j])
       /\ priced[i].Month # priced[j].Month
  /\ \E i, j \in 1..Len(priced) :
       /\ i < j
       /\ key_columns(priced[i]) = key_columns(priced[j])
       /\ priced[i].GalPerEach # priced[j].GalPerEach

-----------------------------------------------------------------------------
(* Properties of the cross-dock expansion and of the split.                *)

Count(rows, Test(_)) == Len(SelectSeq(rows, Test))

Expanded == xpc \in {"expanded", "written"}

\* The rows handle_crossdock treats as the Winco group and as the URM/TOPCO
\* group, told by the customer name.
WincoGroupRow(r) == IsWinco(r.Customername)
UrmGroupRow(r) ==
  /\ ~IsWinco(r.Customername)
  /\ IsUrm(r.Customername)
  /\ r.Customername \notin unwanted_customers

WincoHubRow(r) == WincoGroupRow(r) /\ r.Shiptositename = WincoHubSite
UrmHubRow(r) == UrmGroupRow(r) /\ r.Shiptositename = UrmHubSite

\* A directory entry of the group, not at the hub site, not an excluded
\* customer.
EligibleWinco(d) ==
  /\ IsWinco(d.PartyName)
  /\ d.PartySiteName # WincoHubSite
  /\ d.PartyName \notin unwanted_customers
EligibleUrm(d) ==
  /\ IsUrm(d.PartyName)
  /\ d.PartySiteName # UrmHubSite
  /\ d.PartyName \notin unwanted_customers

\* The URM/TOPCO entries the code joins: the two URM warehouse sites are left
\* out as well as the hub.
JoinedUrm(d) == EligibleUrm(d) /\ d.PartySiteName \notin UrmExcludedSites

WincoAdded == Count(final_df, WincoGroupRow) - Count(vbcs_df, WincoGroupRow)
UrmAdded == Count(final_df, UrmGroupRow) - Count(vbcs_df, UrmGroupRow)

\* C5 as stated: with a hub row in the group and N eligible directory
\* entries, the group grows by exactly N rows.
C5_GroupGrowsByN ==
  Expanded =>
    /\ Count(vbcs_df, WincoHubRow) >= 1 =>
         WincoAdded = Count(customer_report_df, EligibleWinco)
    /\ Count(vbcs_df, UrmHubRow) >= 1 =>
         UrmAdded = Count(customer_report_df, EligibleUrm)

\* C5: with M >= 1 hub-site rows in the group and N directory entries that
\* pass the group's filter, the group grows by exactly M * N rows, one per
\* pair of hub row and entry.  The URM/TOPCO filter also leaves out the
\* sites URM WHSE SPOKANE and URM WHSE SPOKANE HTST.
C5_GroupGrowsByHubRowsTimesN ==
  Expanded =>
    /\ Count(vbcs_df, WincoHubRow) >= 1 =>
         WincoAdded = Count(vbcs_df, WincoHubRow) * Count(customer_report_df, EligibleWinco)
    /\ Count(vbcs_df, UrmHubRow) >= 1 =>
         UrmAdded = Count(vbcs_df, UrmHubRow) * Count(customer_report_df, JoinedUrm)

\* C5's case: two Winco hub rows joined with two destination entries.
C5_Witness ==
  /\ Expanded
  /\ Count(vbcs_df, WincoHubRow) = 2
  /\ Count(customer_report_df, EligibleWinco) = 2
  /\ WincoAdded = 4

GeneratedWinco == SubSeq(winco_final, Count(vbcs_df, WincoGroupRow) + 1, Len(winco_final))
GeneratedUrm == SubSeq(urm_final, Count(vbcs_df, UrmGroupRow) + 1, Len(urm_final))

CustomerColumns == {"Customername", "Shiptositename", "Customersitenumber"}

\* g is the template t with the three customer columns taken from entry d.
FromTemplate(g, t, d) ==
  /\ \A f \in DOMAIN t \ CustomerColumns : g[f] = t[f]
  /\ g.Customername = d.PartyName
  /\ g.Shiptositename = d.PartySiteName
  /\ g.Customersitenumber = d.PartySiteNumber

\* C6: every generated row is a hub-site row of its group with the three
\* customer columns of one directory entry; none is at the hub site, none
\* belongs to an excluded customer.
C6_GeneratedRowsCopyTemplate ==
  Expanded =>
    /\ \A i \in 1..Len(GeneratedWinco) :
         /\ \E t \in Range(vbcs_df), d \in Range(customer_report_df) :
              WincoHubRow(t) /\ FromTemplate(GeneratedWinco[i], t, d)
         /\ GeneratedWinco[i].Shiptositename # WincoHubSite
         /\ GeneratedWinco[i].Customername \notin unwanted_customers
    /\ \A i \in 1..Len(GeneratedUrm) :
         /\ \E t \in Range(vbcs_df), d \in Range(customer_report_df) :
              UrmHubRow(t) /\ FromTemplate(GeneratedUrm[i], t, d)
         /\ GeneratedUrm[i].Shiptositename # UrmHubSite
         /\ GeneratedUrm[i].Customername \notin unwanted_customers

\* C6's case: rows generated for both groups, a TOPCO template among them.
C6_Witness ==
  /\ Expanded
  /\ Len(GeneratedWinco) > 0
  /\ \E i \in 1..Len(GeneratedUrm) : GeneratedUrm[i].Item_Name = 200

\* C7: a group without a hub-site row, or without an eligible directory
\* entry, gets no new row and keeps its rows as they were, whatever happens
\* in the other group.
C7_NoHubRowOrNoSiteIsNoOp ==
  Expanded =>
    /\ (Count(vbcs_df, WincoHubRow) = 0 \/ Count(customer_report_df, EligibleWinco) = 0) =>
         /\ winco_final = SelectSeq(vbcs_df, WincoGroupRow)
         /\ SelectSeq(final_df, WincoGroupRow) = SelectSeq(vbcs_df, WincoGroupRow)
    /\ (Count(vbcs_df, UrmHubRow) = 0 \/ Count(customer_report_df, EligibleUrm) = 0) =>
         /\ urm_final = SelectSeq(vbcs_df, UrmGroupRow)
         /\ SelectSeq(final_df, UrmGroupRow) = SelectSeq(vbcs_df, UrmGroupRow)

\* C7's case: Winco rows without a hub row although the directory has a Winco
\* site, while the URM/TOPCO group is expanded.
C7_Witness ==
  /\ Expanded
  /\ Count(vbcs_df, WincoGroupRow) >= 1
  /\ Count(vbcs_df, WincoHubRow) = 0
  /\ Count(customer_report_df, EligibleWinco) >= 1
  /\ UrmAdded >= 1

\* A row as the split writes it.
Written(r) == [r EXCEPT !.Pricelistname = "CP_Market Price"]

\* C8 as stated: every row of the expanded frame is in exactly one of the
\* three written frames, once, and every written row is in the frame its
\* customer name names.
C8_SplitIsPartition ==
  xpc = "written" =>
    /\ \A r \in Range(final_df) :
         Cardinality({k \in 1..3 :
           Written(r) \in Range(<<urm_vbcs, winco_vbcs, batch_vbcs>>[k])}) = 1
    /\ \A k \in 1..3 :
         LET file == <<urm_vbcs, winco_vbcs, batch_vbcs>>[k]
         IN  /\ \A i, j \in 1..Len(file) : file[i] = file[j] => i = j
             /\ \A i \in 1..Len(file) : \E r \in Range(final_df) : file[i] = Written(r)

-----------------------------------------------------------------------------
(* Properties of the formatters and of the combiners.                      *)

Distance(a, b) == IF a >= b THEN a - b ELSE b - a

\* a is x rounded to d decimal places: a multiple of the last place's weight,
\* no further from x than half of it.
IsRounding(a, x, d) == a % UnitOf(d) = 0 /\ 2 * Distance(a, x) <= UnitOf(d)

\* The eaches in one pricing unit of an item, by the UOM table.
EachesIn(item, uom) ==
  CASE uom = "EA" -> 1
    [] uom = "CA" /\ item = 100 -> 4
    [] uom = "ST" /\ item = 100 -> 40
    [] OTHER -> 0

\* Every record of the Variable formatter carries the price of a source row,
\* in its pricing unit, rounded by that row's Rounding Rule (0 if it has none).
VariableRoundsPerRule ==
  fpc = "variable_done" =>
    \A i \in 1..Len(vbcs_initial_df) :
      \E s \in Range(execution_df) :
        /\ s.Item = vbcs_initial_df[i].Item_Name
        /\ IsRounding(vbcs_initial_df[i].Adjustmentamount,
                      to_numeric(s.TotalPrice).v
                        * EachesIn(s.Item, vbcs_initial_df[i].Pricinguom),
                      rounding_rule_int(s.RoundingRule))

\* C9 as stated: in the records of all three formatters the amount is the
\* source price rounded by the item's Rounding Rule.
C9_AmountRoundedPerRule ==
  /\ VariableRoundsPerRule
  /\ fpc = "fixed_done" =>
       \A i \in 1..Len(fixed_result) :
         /\ ~fixed_result[i].Adjustmentamount.na
         /\ IsRounding(fixed_result[i].Adjustmentamount.v,
                       to_numeric(filtered_df[i].TotalPrice).v,
                       rounding_rule_int(filtered_df[i].RoundingRule))
  /\ fpc = "ks_done" =>
       \A i \in 1..Len(ks_result) :
         \E s \in Range(execution_df) :
           /\ s.Item = ks_result[i].Item_Name
           /\ IsRounding(ks_result[i].Adjustmentamount,
                         to_numeric(costco_price).v,
                         rounding_rule_int(s.RoundingRule))

\* C9: the Variable formatter rounds the price by the row's Rounding Rule (0
\* places if it has none); the KS formatter rounds the Costco price to 2
\* places whatever the rule; the Fixed formatter writes the source price as
\* it is.
C9_AmountPerFormatter ==
  /\ VariableRoundsPerRule
  /\ fpc = "fixed_done" =>
       /\ Len(fixed_result) = Len(filtered_df)
       /\ \A i \in 1..Len(fixed_result) :
            fixed_result[i].Adjustmentamount = to_numeric(filtered_df[i].TotalPrice)
  /\ fpc = "ks_done" =>
       \A i \in 1..Len(ks_result) :
         IsRounding(ks_result[i].Adjustmentamount, to_numeric(costco_price).v, 2)

\* C9's case: the Variable formatter has written a case price that rounding
\* to two places changed, and one that rounding to no place changed.
C9_Witness ==
  /\ fpc = "variable_done"
  /\ \E i \in 1..Len(vbcs_initial_df) :
       /\ melted_df[i].RoundingRule = 2
       /\ melted_df[i].PricingUOM = "CA"
       /\ vbcs_initial_df[i].Adjustmentamount # melted_df[i].TotalPrice
  /\ \E i \in 1..Len(vbcs_initial_df) :
       /\ melted_df[i].RoundingRule = 0
       /\ vbcs_initial_df[i].Adjustmentamount # melted_df[i].TotalPrice

\* C10 as stated: the combined frame has the first 21 columns and the source
\* tag, every row is tagged, and no two rows are identical.
C10_CombinerKeeps21ColumnsNoDuplicates ==
  cpc \in {"page_done", "script_done"} =>
    /\ combined_df.columns = SubSeq(VbcsColumns, 1, KeptColumns) \o <<"Source_File">>
    /\ \A i \in 1..Len(combined_df.rows) : ~isna(combined_df.rows[i]["Source_File"])
    /\ \A i, j \in 1..Len(combined_df.rows) :
         combined_df.rows[i] = combined_df.rows[j] => i = j

-----------------------------------------------------------------------------
(* Properties of load_date_assumptions.                                    *)

DatesLoaded == dpc \in {"loaded", "saved"}

\* The length of a month of the calendar.
MonthLength(y, m) ==
  <<31, IF y % 4 = 0 /\ (y % 100 # 0 \/ y % 400 = 0) THEN 29 ELSE 28,
    31, 30, 31, 30, 31, 31, 30, 31, 30, 31>>[m]

\* The end date is the last calendar day of the start date's month.
EndIsLastDayOfStartMonth ==
  /\ adj_end_date.year = adj_start_date.year
  /\ adj_end_date.month = adj_start_date.month
  /\ adj_end_date.day = MonthLength(adj_start_date.year, adj_start_date.month)

\* Without a 'Current Month' rule the call raises and no file is written.
NoCurrentMonthRaises ==
  (dpc # "start" /\ \A i \in 1..Len(assumptions_df) :
                      assumptions_df[i].Rules # "Current Month")
    => dpc = "raised" /\ ~vbcs_saved

\* C11 as stated: the start date returned is the first day of a month, the
\* end date the last calendar day of that month, December included; without
\* a 'Current Month' rule the call raises and no VBCS file is written.
C11_StartIsFirstDayEndIsLastDay ==
  /\ DatesLoaded => adj_start_date.day = 1 /\ EndIsLastDayOfStartMonth
  /\ NoCurrentMonthRaises

\* C11: the start date returned is the date of the first 'Current Month' row
\* as it stands in the table, at 00:00 (the first day of a month only if the
\* table says so); the end date is the last calendar day of the start date's
\* month, December included; without a 'Current Month' rule the call raises
\* and no VBCS file is written.
C11_StartIsTableDateEndIsLastDay ==
  /\ DatesLoaded =>
       /\ \E i \in 1..Len(assumptions_df) :
            /\ assumptions_df[i].Rules = "Current Month"
            /\ \A j \in 1..(i - 1) : assumptions_df[j].Rules # "Current Month"
            /\ adj_start_date.year = DigitsVal(SubSeq(assumptions_df[i].Value, 1, 4))
            /\ adj_start_date.month = DigitsVal(SubSeq(assumptions_df[i].Value, 6, 7))
            /\ adj_start_date.day = DigitsVal(SubSeq(assumptions_df[i].Value, 9, 10))
       /\ adj_start_date.hour = 0 /\ adj_start_date.minute = 0
       /\ EndIsLastDayOfStartMonth
  /\ NoCurrentMonthRaises

\* C11's case: a December start date, loaded and the file written.
C11_Witness ==
  /\ dpc = "saved"
  /\ vbcs_saved
  /\ adj_start_date.month = 12
  /\ adj_end_date.day = 31

-----------------------------------------------------------------------------
(* Properties of the fetch of the market series and of the key check.      *)

ConfiguredSeries == FRED_SERIES \o EIA_SERIES

InMain == bpc \in {"test_keys", "fetch_fred", "fetch_eia", "save", "done"}

\* The series of a service that an attempt has been made for.
Attempted(series) ==
  {series[i] : i \in {j \in 1..Len(series) : \E k \in 1..Len(attempts) : attempts[k] = series[j]}}

\* The series has its frame among the successes.
Succeeded(lists, name) ==
  \E i \in 1..Len(lists.data_frames) : lists.data_frames[i][1].Series = name

\* The series has its name among the failed names.
Failed(lists, name, source) ==
  \E i \in 1..Len(lists.failed_series) :
     lists.failed_series[i] = name \o " (" \o source \o ")"

\* Every attempted series of the service is in exactly one of the two lists,
\* and the lists hold nothing else.
OneResultEach(lists, series, source) ==
  /\ \A name \in Attempted(series) :
       Succeeded(lists, name) # Failed(lists, name, source)
  /\ Len(lists.data_frames) + Len(lists.failed_series) = Cardinality(Attempted(series))

BothKeysPresent == {"FRED", "EIA"} \subseteq load_api_keys(env_keys, keys_file)

-----------------------------------------------------------------------------
(* Properties of process_and_save_data.                                    *)

Occurrences(rows, r) == Cardinality({i \in 1..Len(rows) : rows[i] = r})

Fetched == Flatten(data_frames)

HasDateAndValue(r) == r.Date # NaT /\ ~r.Value.na

\* C14: the rows written are, as a multiset, the fetched rows that have a
\* date and a numeric value (rows of equal date in a series each kept), in
\* non-decreasing order of (Series, Date).
C14_SavedRowsAreTheCompleteRowsSorted ==
  csv_written =>
    /\ \A r \in Range(Fetched) \cup Range(output_csv) :
         Occurrences(output_csv, r) =
           IF HasDateAndValue(r) THEN Occurrences(Fetched, r) ELSE 0
    /\ \A i, j \in 1..Len(output_csv) :
         i < j =>
           \/ StrLess(output_csv[i].Series, output_csv[j].Series)
           \/ /\ output_csv[i].Series = output_csv[j].Series
              /\ ~DateLess(output_csv[j].Date, output_csv[i].Date)

\* C14's case: two series fetched out of order, one with two rows of the
\* same date and the other with a row that has no value.
C14_Witness ==
  /\ csv_written
  /\ Len(data_frames) = 2
  /\ data_frames[1][1].Series = FRED_SERIES[2]
  /\ data_frames[1][1].Value.na
  /\ Len(output_csv) = 2
  /\ output_csv[1].Date = output_csv[2].Date

-----------------------------------------------------------------------------
(* Properties of get_forecast_data.                                        *)

ForecastReturned == gpc = "returned"

Observations(name) == SelectSeq(history, LAMBDA r : r.Series = name)

ForecastOf(name) == SelectSeq(future_df, LAMBDA r : r.Series = name)

HistoryNames == {history[i].Series : i \in 1..Len(history)}

\* The percentage-change points of a series: the observations after the
\* first, in date order, but for a zero that follows a zero.
PctPoints(name) ==
  LET obs == series_data_of(history, name)
  IN  Cardinality({i \in 2..Len(obs) :
                     ~(obs[i - 1].Value.v = 0 /\ obs[i].Value.v = 0)})

\* Every date of the rows is a month start later than every observation, and
\* the dates increase strictly.
MonthStartsAfterHistory(rows, obs) ==
  /\ \A i \in 1..Len(rows) : rows[i].Date.day = 1
  /\ \A i \in 1..Len(rows), j \in 1..Len(obs) : DateLess(obs[j].Date, rows[i].Date)
  /\ \A i \in 1..(Len(rows) - 1) : DateLess(rows[i].Date, rows[i + 1].Date)

C16_SkippedSeriesIsReported ==
  ForecastReturned =>
    \A name \in HistoryNames :
      Len(Observations(name)) < 12 =>
        \E i \in 1..Len(stderr) : stderr[i].series = name

\* The levels v[1..n] compound the percentages p[1..n] from the level v0.
Compounds(v0, v, p) ==
  /\ Len(v) = Len(p)
  /\ \A t \in 1..Len(v) :
       100 * v[t] = (IF t = 1 THEN v0 ELSE v[t - 1]) * (100 + p[t])

Column(rows, Field(_)) == [i \in 1..Len(rows) |-> Field(rows[i])]

BaselineOf(name) == Column(ForecastOf(name), LAMBDA r : r.Baseline)
UpperOf(name) == Column(ForecastOf(name), LAMBDA r : r.Upper)
LowerOf(name) == Column(ForecastOf(name), LAMBDA r : r.Lower)

\* C17: where a fit succeeded, the levels are compounded step by step from
\* the last observed value: Baseline with the forecast percentages, Upper
\* and Lower with the upper and the lower percentage bound of each step.
C17_LevelsCompoundFromLastValue ==
  ForecastReturned =>
    \A k \in 1..Len(fit_results) :
      LET e == fit_results[k]
      IN  /\ e.hw.ok => Compounds(e.last_value, BaselineOf(e.Series), e.hw.forecast)
          /\ e.sarima.ok =>
               /\ Compounds(e.last_value, UpperOf(e.Series),
                            [i \in 1..Len(e.sarima.conf_int) |-> e.sarima.conf_int[i][2]])
               /\ Compounds(e.last_value, LowerOf(e.Series),
                            [i \in 1..Len(e.sarima.conf_int) |-> e.sarima.conf_int[i][1]])

\* C17's case: both fits succeeded, over two steps with different
\* percentages.
C17_Witness ==
  /\ ForecastReturned
  /\ horizon = 2
  /\ \E k \in 1..Len(fit_results) :
       /\ fit_results[k].hw.ok /\ fit_results[k].sarima.ok
       /\ fit_results[k].hw.forecast = <<20, -10>>
       /\ fit_results[k].sarima.conf_int[1] # fit_results[k].sarima.conf_int[2]

-----------------------------------------------------------------------------
(* Properties of the forecast block of render.                             *)

\* Before the pass the forecast CSV was absent, empty or older than the
\* observation CSV.
PreDue == last_pass.pre_absent_or_empty \/ last_pass.pre_source_newer

\* C19 as stated: a pass regenerates the forecast if and only if the
\* observation CSV was newer than the forecast CSV or the forecast CSV was
\* absent or empty; otherwise no change of the dates runs the generation or
\* rewrites the forecast CSV.
C19_RegeneratedIffSourceNewerOrForecastMissing ==
  last_pass.kind # "none" =>
    /\ last_pass.generated <=> PreDue
    /\ ~PreDue => ~last_pass.rewritten

\* C19: a pass that does not refresh the observations asks for the forecast
\* if and only if the range chosen is valid and ends after the last
\* observation and the forecast CSV was absent, empty or older than the
\* observation CSV; get_forecast_data then runs unless the cache holds its
\* result for the same observations, and the forecast CSV is rewritten only
\* by such a run.  With the forecast CSV present, non-empty and not older, a
\* change of the dates runs nothing, unless the pass is the automatic refresh
\* of observations 15 days old, which regenerates both files.
C19_RegeneratedOnFutureRangeAndStaleForecast ==
  /\ last_pass.kind = "render" =>
       /\ last_pass.requested <=> (last_pass.selection = "future" /\ PreDue)
       /\ last_pass.generated => last_pass.requested
       /\ last_pass.rewritten => last_pass.generated
       /\ ~PreDue => (~last_pass.generated /\ ~last_pass.rewritten)
  /\ (last_pass.kind = "refresh" /\ last_pass.rewritten) => last_pass.generated
  /\ last_pass.rewritten =>
       (forecast_csv.exists /\ ~forecast_csv.empty /\ forecast_csv.mtime >= inflation_mtime)

\* C19's case: the dates changed to a future range with the forecast CSV
\* present, non-empty and not older than the observations, and nothing ran.
C19_Witness ==
  /\ last_pass.kind = "render"
  /\ last_pass.selection = "future"
  /\ ~PreDue
  /\ ~last_pass.generated
  /\ ~last_pass.rewritten

-----------------------------------------------------------------------------
(* Properties of the reading of a reference CSV.                           *)

IsC1(c) == c >= 128 /\ c <= 159

\* The file is not UTF-8 and holds a byte of 0x80-0x9F beside other bytes.
Cp1252WithControlBytes ==
  /\ ~utf8_decode(ref_data).ok
  /\ \E i \in 1..Len(ref_data) : IsC1(ref_data[i])
  /\ \E i \in 1..Len(ref_data) : ~IsC1(ref_data[i])

\* C20 as stated: a Windows-1252 file with bytes of 0x80-0x9F is loaded into
\* a populated frame without those bytes, whichever file it is, by the first
\* encoding that decodes.
C20_ControlBytesStrippedFromAnyFile ==
  (lpc = "loaded" /\ Cp1252WithControlBytes) =>
    /\ df_text # <<>>
    /\ \A i \in 1..Len(df_text) : ~IsC1(df_text[i])
    /\ encoding_used \in {"utf-8", "latin-1"}

-----------------------------------------------------------------------------
(* Properties of a run of process_uploaded_files.                          *)

\* C21 as stated: when process_uploaded_files returns False, the parquet file
\* is what it was before the run: none is written and the one of an earlier
\* run is unchanged.
C21_FailedRunLeavesParquetUnchanged ==
  run_result = "False" => parquet_file = earlier_parquet

\* C22 as stated: with the nine files uploaded, an absent cost column never
\* fails the joins and pricing, and once the costs are computed every absent
\* column is 0 and an unparseable or missing cell is 0.
C22_AbsentCostColumnIsZeroFilled ==
  /\ failed_step # "joins"
  /\ rpc \in {"priced", "saving"} \/ run_result = "True" =>
       \A c \in CostColumns :
         /\ c \in absent_columns => cost_columns[c] = 0
         /\ cost_cell \in {"TBD", NaN} => cost_columns[c] = 0

-----------------------------------------------------------------------------
(* Properties of the Variable pricing run and its Excel automation.        *)

\* C23: a step that runs the automation is taken between runs of the
\* script; it invokes a group only when that group's CSV exists and has at
\* least one data row, and, failed or not, it leaves the output files as
\* they were.
C23_AutomationAfterCsvAndCsvUnchanged ==
  [][automation' # automation =>
       /\ vpc = "page"
       /\ \A g \in automation'.invoked : out_files[g].exists /\ out_files[g].rows > 0
       /\ out_files' = out_files]_vars

\* C23 witness: the URM automation was invoked and failed, with the files of
\* a generation of this session in place.
C23_Witness ==
  /\ automation.ran
  /\ "urm_vbcs.csv" \in automation.failed
  /\ \A n \in OutputNames : out_files[n].run = 1

\* The last call of run_processing_script was a generation whose script did
\* not reach its outputs (a required file missing or unparseable).
FailedOnRequiredInput == vpc = "page" /\ run_no > 0 /\ ~csv_generated /\ returned # NotReturned

\* C24 as stated: a run that fails on a required input returns success =
\* False with no frames, and no return holds a frame the run did not write.
C24_FailureReportedAndNoStaleOutputs ==
  /\ FailedOnRequiredInput => ~returned.success /\ returned.frames = {}
  /\ \A f \in returned.frames : f[2] = run_no

-----------------------------------------------------------------------------
(* Properties of the excluded customers and of the rows handle_crossdock   *)
(* keeps.                                                                  *)

Excluded(r) == r.Customername \in unwanted_customers

\* C25 as stated: a row of an excluded customer is written to batch_vbcs.csv
\* and not to urm_vbcs.csv, and no generated row carries an excluded
\* customer or comes from an excluded customer's row.
C25_ExcludedCustomersGoToBatch ==
  /\ xpc = "written" =>
       \A r \in Range(vbcs_df) :
         Excluded(r) => /\ Written(r) \in Range(batch_vbcs)
                        /\ Written(r) \notin Range(urm_vbcs)
  /\ Expanded =>
       \A g \in Range(GeneratedWinco) \cup Range(GeneratedUrm) :
         /\ ~Excluded(g)
         /\ \E t \in Range(vbcs_df), d \in Range(customer_report_df) :
              ~Excluded(t) /\ d.PartyName \notin unwanted_customers /\ FromTemplate(g, t, d)

TimesIn(rows, r) == Cardinality({i \in 1..Len(rows) : rows[i] = r})

\* C26: every row, with or without a customer name, hub row or not, of an
\* excluded customer or not, is in the output as often as in the input plus
\* as often as the two expansions generated it.
C26_OriginalRowsConserved ==
  Expanded =>
    /\ \A r \in Range(vbcs_df) \cup Range(final_df) :
         TimesIn(final_df, r) =
           TimesIn(vbcs_df, r) + TimesIn(GeneratedWinco, r) + TimesIn(GeneratedUrm, r)
    /\ Len(final_df) = Len(vbcs_df) + Len(GeneratedWinco) + Len(GeneratedUrm)

\* C26 witness: a row without customer name, a row of an excluded customer
\* and a URM hub row that was expanded.
C26_Witness ==
  /\ Expanded
  /\ \E r \in Range(vbcs_df) : isna(r.Customername)
  /\ \E r \in Range(vbcs_df) : Excluded(r)
  /\ \E r \in Range(vbcs_df) : UrmHubRow(r)
  /\ Len(GeneratedUrm) > 0

-----------------------------------------------------------------------------
(* Properties of the session cache of the VBCS outputs.                    *)

SameKeys == DOMAIN vbcs_cache = DOMAIN vbcs_cache_timestamps

\* The timestamp of an entry is the time its frame was stored.
StampedAtStore == \A f \in DOMAIN vbcs_cache : vbcs_cache_timestamps[f] = vbcs_cache[f]

\* No entry was more than five minutes old at the last cleanup.
FreshAtCleanup ==
  \A f \in DOMAIN vbcs_cache_timestamps :
    vbcs_cache_timestamps[f] >= cleaned_at - cutoff_minutes

\* C27 as stated: the two dicts have the same keys, a store stamps the store
\* time, a cleanup leaves no entry of more than five minutes, and no frame
\* is offered for download more than five minutes after its store.
C27_NeverOffersOutputOlderThanFiveMinutes ==
  /\ SameKeys
  /\ StampedAtStore
  /\ FreshAtCleanup
  /\ \A e \in offer.files : offer.at - e[2] <= cutoff_minutes

\* C27: the two dicts have the same keys, a store stamps the store time, a
\* cleanup leaves no entry of more than five minutes, and a frame offered
\* for download was stored at most five minutes before the cleanup that
\* began the render pass offering it.
C27_OfferedOutputWasFreshAtPassStart ==
  /\ SameKeys
  /\ StampedAtStore
  /\ FreshAtCleanup
  /\ \A e \in offer.files : offer.cleaned_at - e[2] <= cutoff_minutes

\* C27 witness: a pass removed the Fixed output, stored more than five
\* minutes before, and offers a later output that a cleanup kept.
C27_Witness ==
  /\ offer.at = now
  /\ now > cutoff_minutes
  /\ \E e \in offer.files : e[2] > 0 /\ e[2] < now
  /\ "fixed_vbcs.csv" \notin DOMAIN vbcs_cache
  /\ cleaned_at = now

-----------------------------------------------------------------------------
(* Properties of the two cleanup routines.                                 *)

Cleaned == last_cleanup.routine # "none"

OldAtCleanup(f) ==
  CleanupTime - last_cleanup.before[f].mtime > last_cleanup.max_age_minutes

\* C28: after either routine every one of the six output files that was in
\* the directory is still there, as it was, whatever its age; a deleted file
\* was modified more than max_age_minutes before; and every old file whose
\* name holds no output name and whose unlink works is deleted, also when
\* the unlink of another file raised.
C28_CleanupSparesOutputsAndGoesOn ==
  Cleaned =>
    /\ \A f \in OutputFileNames \cap DOMAIN last_cleanup.before :
         f \in DOMAIN dir_files /\ dir_files[f] = last_cleanup.before[f]
    /\ \A f \in last_cleanup.deleted : f \notin OutputFileNames /\ OldAtCleanup(f)
    /\ DOMAIN dir_files = DOMAIN last_cleanup.before \ last_cleanup.deleted
    /\ \A f \in DOMAIN last_cleanup.before :
         (~is_output_file[f] /\ OldAtCleanup(f) /\ ~last_cleanup.before[f].locked)
           => f \in last_cleanup.deleted

\* C28 witness: an old output file is kept, the unlink of one old input
\* file raised, and another old file was deleted all the same.
C28_Witness ==
  /\ Cleaned
  /\ \E f \in OutputFileNames \cap DOMAIN dir_files : OldAtCleanup(f)
  /\ last_cleanup.errors # {}
  /\ last_cleanup.deleted # {}

-----------------------------------------------------------------------------
(* Properties of the interval of a forecast row.                           *)

\* The rows of series name come from an interval fit that succeeded, on a
\* positive last value, with lower <= upper percentage at every step.
IntervalFitOf(name) ==
  \E k \in 1..Len(fit_results) :
    /\ fit_results[k].Series = name
    /\ fit_results[k].sarima.ok
    /\ fit_results[k].last_value > 0
    /\ \A i \in 1..Len(fit_results[k].sarima.conf_int) :
         fit_results[k].sarima.conf_int[i][1] <= fit_results[k].sarima.conf_int[i][2]

\* C29 as stated: every forecast row of such a series has Lower <= Upper,
\* also when a percentage bound is below -100.
C29_LowerAtMostUpper ==
  \A i \in 1..Len(forecast_rows) :
    IntervalFitOf(forecast_rows[i].Series) => forecast_rows[i].Lower <= forecast_rows[i].Upper

-----------------------------------------------------------------------------
(* Properties of the refresh of the page and of its reruns.                *)

\* The page has passed the key check and is about to refresh: the keys are
\* valid and the CSV is absent or at least 15 days old.
RefreshDue ==
  /\ entry = "page"
  /\ bpc = "checked"
  /\ api_keys_valid = "valid"
  /\ should_refresh_data(csv_file)

\* C30 as stated: once a refresh is due, the page is eventually drawn (the
\* dashboard or the error message of an empty CSV), or the user has stepped
\* in with an upload; a refresh whose main returns False does not make the
\* page rerun and retry for ever.
C30_RefreshEndsInThePage ==
  [](RefreshDue => <>(bpc = "shown" \/ uploaded))

-----------------------------------------------------------------------------
(* Specifications.                                                         *)

IdleTier ==
  /\ sell_to_tier = NaN
  /\ custom_label_tier = NaN
  /\ cvt_result = "none"
  /\ cvt_branch = "none"

IdlePrice ==
  /\ pc = "idle"
  /\ milk_base_cost = <<>>
  /\ sell_to_volume_fees = <<>>
  /\ custom_label_fees = <<>>
  /\ product_uom = <<>>
  /\ cartesian = <<>>
  /\ tier_mask = <<>>
  /\ priced = <<>>
  /\ deduped = <<>>
  /\ final_result = <<>>

IdleCrossdock ==
  /\ xpc = "idle"
  /\ vbcs_df = <<>>
  /\ customer_report_df = <<>>
  /\ winco_final = <<>>
  /\ urm_final = <<>>
  /\ final_df = <<>>
  /\ urm_vbcs = <<>>
  /\ winco_vbcs = <<>>
  /\ batch_vbcs = <<>>

IdleFormat ==
  /\ fpc = "idle"
  /\ execution_df = <<>>
  /\ costco_price = NaN
  /\ merged_df = <<>>
  /\ melted_df = <<>>
  /\ vbcs_initial_df = <<>>
  /\ filtered_df = <<>>
  /\ fixed_result = <<>>
  /\ ks_result = <<>>

IdleCombine ==
  /\ cpc = "idle"
  /\ output_folder = <<>>
  /\ combined_df = [columns |-> <<>>, rows |-> <<>>]

IdleDates ==
  /\ dpc = "idle"
  /\ dscript = "none"
  /\ assumptions_df = <<>>
  /\ adj_start_date = NoDate
  /\ adj_end_date = NoDate
  /\ filtered_date = NoDate
  /\ vbcs_saved = FALSE

IdleFetch ==
  /\ bpc = "idle"
  /\ entry = "none"
  /\ env_keys = {}
  /\ keys_file = NoFile
  /\ csv_file = [exists |-> FALSE, age_days |-> 0]
  /\ api_keys_valid = "unchecked"
  /\ uploaded = FALSE
  /\ api_keys = {}
  /\ key_test = "untested"
  /\ idx = 1
  /\ fred = NoLists
  /\ eia = NoLists
  /\ attempts = <<>>
  /\ inflation_data = <<>>
  /\ main_result = "none"

IdleSave ==
  /\ spc = "idle"
  /\ data_frames = <<>>
  /\ output_csv = <<>>
  /\ csv_written = FALSE
  /\ save_result = "none"

IdleForecast ==
  /\ gpc = "idle"
  /\ horizon = 0
  /\ history = <<>>
  /\ series_i = 1
  /\ forecast_rows = <<>>
  /\ fit_results = <<>>
  /\ stderr = <<>>
  /\ future_df = <<>>
  /\ future_csv_written = FALSE

IdlePage ==
  /\ clock = 0
  /\ inflation_mtime = 0
  /\ refresh_due = FALSE
  /\ forecast_csv = NoForecastCsv
  /\ forecast_cache = {}
  /\ last_pass = NoPass

IdleLoad ==
  /\ lpc = "idle"
  /\ ref_name = "none"
  /\ ref_data = <<>>
  /\ file_on_disk = <<>>
  /\ cleaned_copy_left = FALSE
  /\ encoding_used = "none"
  /\ df_text = <<>>

IdleParquet ==
  /\ rpc = "idle"
  /\ uploaded_names = {}
  /\ absent_columns = {}
  /\ other_columns_present = FALSE
  /\ cost_cell = NaN
  /\ earlier_parquet = "absent"
  /\ parquet_file = "absent"
  /\ cost_columns = <<>>
  /\ attempt = 1
  /\ failed_step = "none"
  /\ run_result = "none"

IdleScript ==
  /\ vpc = "idle"
  /\ platform = "none"
  /\ run_no = 0
  /\ out_files = <<>>
  /\ csv_generated = FALSE
  /\ pending = <<>>
  /\ returned = NotReturned
  /\ session_cache = {}
  /\ automation = NoAutomation

IdleCache ==
  /\ now = 0
  /\ vbcs_cache = EmptyDict
  /\ vbcs_cache_timestamps = EmptyDict
  /\ cleaned_at = 0
  /\ rerun_pending = FALSE
  /\ offer = NoOffer

IdleCleanup ==
  /\ dir_files = <<>>
  /\ last_cleanup = NoCleanup

InitSpecTier ==
  InitTier
    /\ IdlePrice /\ IdleCrossdock /\ IdleFormat /\ IdleCombine
    /\ IdleDates /\ IdleFetch /\ IdleSave /\ IdleForecast /\ IdlePage
    /\ IdleLoad /\ IdleParquet /\ IdleScript /\ IdleCache /\ IdleCleanup
OthersTier == 
  <<varsPrice, varsCrossdock, varsFormat, varsCombine, varsDates, varsFetch,
    varsSave, varsForecast, varsPage, varsLoad, varsParquet, varsScript,
    varsCache, varsCleanup>>
NextTier ==
  CompareVolumeTiers /\ UNCHANGED OthersTier
SpecTier == InitSpecTier /\ [][NextTier]_vars

InitSpecPrice ==
  InitPrice
    /\ IdleTier /\ IdleCrossdock /\ IdleFormat /\ IdleCombine
    /\ IdleDates /\ IdleFetch /\ IdleSave /\ IdleForecast /\ IdlePage
    /\ IdleLoad /\ IdleParquet /\ IdleScript /\ IdleCache /\ IdleCleanup
OthersPrice == 
  <<varsTier, varsCrossdock, varsFormat, varsCombine, varsDates, varsFetch,
    varsSave, varsForecast, varsPage, varsLoad, varsParquet, varsScript,
    varsCache, varsCleanup>>
NextPrice ==
  \/ PerformJoins /\ UNCHANGED OthersPrice
  \/ ApplyVolumeTierRule /\ UNCHANGED OthersPrice
  \/ ComputePrices /\ UNCHANGED OthersPrice
  \/ RemoveDuplicates /\ UNCHANGED OthersPrice
  \/ SortRows /\ UNCHANGED OthersPrice
SpecPrice == InitSpecPrice /\ [][NextPrice]_vars

InitSpecCrossdock ==
  InitCrossdock
    /\ IdleTier /\ IdlePrice /\ IdleFormat /\ IdleCombine /\ IdleDates
    /\ IdleFetch /\ IdleSave /\ IdleForecast /\ IdlePage /\ IdleLoad
    /\ IdleParquet /\ IdleScript /\ IdleCache /\ IdleCleanup
OthersCrossdock == 
  <<varsTier, varsPrice, varsFormat, varsCombine, varsDates, varsFetch,
    varsSave, varsForecast, varsPage, varsLoad, varsParquet, varsScript,
    varsCache, varsCleanup>>
NextCrossdock ==
  \/ HandleCrossdock /\ UNCHANGED OthersCrossdock
  \/ SplitAndSave /\ UNCHANGED OthersCrossdock
SpecCrossdock == InitSpecCrossdock /\ [][NextCrossdock]_vars

InitSpecFormat ==
  InitFormat
    /\ IdleTier /\ IdlePrice /\ IdleCrossdock /\ IdleCombine
    /\ IdleDates /\ IdleFetch /\ IdleSave /\ IdleForecast /\ IdlePage
    /\ IdleLoad /\ IdleParquet /\ IdleScript /\ IdleCache /\ IdleCleanup
OthersFormat == 
  <<varsTier, varsPrice, varsCrossdock, varsCombine, varsDates, varsFetch,
    varsSave, varsForecast, varsPage, varsLoad, varsParquet, varsScript,
    varsCache, varsCleanup>>
NextFormat ==
  \/ MergeUomAndCalculatePrices /\ UNCHANGED OthersFormat
  \/ PivotAndRoundData /\ UNCHANGED OthersFormat
  \/ FormatForVbcs /\ UNCHANGED OthersFormat
  \/ ProcessPriceData /\ UNCHANGED OthersFormat
  \/ ProcessCostcoPricingData /\ UNCHANGED OthersFormat
SpecFormat == InitSpecFormat /\ [][NextFormat]_vars

InitSpecCombine ==
  InitCombine
    /\ IdleTier /\ IdlePrice /\ IdleCrossdock /\ IdleFormat /\ IdleDates
    /\ IdleFetch /\ IdleSave /\ IdleForecast /\ IdlePage /\ IdleLoad
    /\ IdleParquet /\ IdleScript /\ IdleCache /\ IdleCleanup
OthersCombine == 
  <<varsTier, varsPrice, varsCrossdock, varsFormat, varsDates, varsFetch,
    varsSave, varsForecast, varsPage, varsLoad, varsParquet, varsScript,
    varsCache, varsCleanup>>
NextCombine ==
  \/ RunCombineVbcs /\ UNCHANGED OthersCombine
  \/ CombineVbcsFiles /\ UNCHANGED OthersCombine
SpecCombine == InitSpecCombine /\ [][NextCombine]_vars

InitSpecDates ==
  InitDates
    /\ IdleTier /\ IdlePrice /\ IdleCrossdock /\ IdleFormat
    /\ IdleCombine /\ IdleFetch /\ IdleSave /\ IdleForecast /\ IdlePage
    /\ IdleLoad /\ IdleParquet /\ IdleScript /\ IdleCache /\ IdleCleanup
OthersDates == 
  <<varsTier, varsPrice, varsCrossdock, varsFormat, varsCombine, varsFetch,
    varsSave, varsForecast, varsPage, varsLoad, varsParquet, varsScript,
    varsCache, varsCleanup>>
NextDates ==
  \/ LoadDateAssumptions /\ UNCHANGED OthersDates
  \/ SaveVbcs /\ UNCHANGED OthersDates
SpecDates == InitSpecDates /\ [][NextDates]_vars

InitSpecFetch ==
  InitFetch
    /\ IdleTier /\ IdlePrice /\ IdleCrossdock /\ IdleFormat
    /\ IdleCombine /\ IdleDates /\ IdleSave /\ IdleForecast /\ IdlePage
    /\ IdleLoad /\ IdleParquet /\ IdleScript /\ IdleCache /\ IdleCleanup
OthersFetch == 
  <<varsTier, varsPrice, varsCrossdock, varsFormat, varsCombine, varsDates,
    varsSave, varsForecast, varsPage, varsLoad, varsParquet, varsScript,
    varsCache, varsCleanup>>
NextFetch ==
  \/ RenderCheckApiKeys /\ UNCHANGED OthersFetch
  \/ RenderSaveApiKeys /\ UNCHANGED OthersFetch
  \/ RenderRefresh /\ UNCHANGED OthersFetch
  \/ MainLoadApiKeys /\ UNCHANGED OthersFetch
  \/ MainTestApiKeys /\ UNCHANGED OthersFetch
  \/ FetchFredSeries /\ UNCHANGED OthersFetch
  \/ FetchEiaSeries /\ UNCHANGED OthersFetch
  \/ MainProcessAndSave /\ UNCHANGED OthersFetch
  \/ Rerun /\ UNCHANGED OthersFetch
SpecFetch == InitSpecFetch /\ [][NextFetch]_vars

InitSpecSave ==
  InitSave
    /\ IdleTier /\ IdlePrice /\ IdleCrossdock /\ IdleFormat
    /\ IdleCombine /\ IdleDates /\ IdleFetch /\ IdleForecast /\ IdlePage
    /\ IdleLoad /\ IdleParquet /\ IdleScript /\ IdleCache /\ IdleCleanup
OthersSave == 
  <<varsTier, varsPrice, varsCrossdock, varsFormat, varsCombine, varsDates,
    varsFetch, varsForecast, varsPage, varsLoad, varsParquet, varsScript,
    varsCache, varsCleanup>>
NextSave ==
  ProcessAndSaveData /\ UNCHANGED OthersSave
SpecSave == InitSpecSave /\ [][NextSave]_vars

InitSpecForecast ==
  InitForecast
    /\ IdleTier /\ IdlePrice /\ IdleCrossdock /\ IdleFormat
    /\ IdleCombine /\ IdleDates /\ IdleFetch /\ IdleSave /\ IdlePage
    /\ IdleLoad /\ IdleParquet /\ IdleScript /\ IdleCache /\ IdleCleanup
OthersForecast == 
  <<varsTier, varsPrice, varsCrossdock, varsFormat, varsCombine, varsDates,
    varsFetch, varsSave, varsPage, varsLoad, varsParquet, varsScript,
    varsCache, varsCleanup>>
NextForecast ==
  \/ ForecastSeries /\ UNCHANGED OthersForecast
  \/ SaveForecast /\ UNCHANGED OthersForecast
SpecForecast == InitSpecForecast /\ [][NextForecast]_vars

InitSpecPage ==
  InitPage
    /\ IdleTier /\ IdlePrice /\ IdleCrossdock /\ IdleFormat
    /\ IdleCombine /\ IdleDates /\ IdleFetch /\ IdleSave /\ IdleForecast
    /\ IdleLoad /\ IdleParquet /\ IdleScript /\ IdleCache /\ IdleCleanup
OthersPage == 
  <<varsTier, varsPrice, varsCrossdock, varsFormat, varsCombine, varsDates,
    varsFetch, varsSave, varsForecast, varsLoad, varsParquet, varsScript,
    varsCache, varsCleanup>>
NextPage ==
  \/ RenderAutoRefresh /\ UNCHANGED OthersPage
  \/ Render /\ UNCHANGED OthersPage
  \/ DaysPass /\ UNCHANGED OthersPage
SpecPage == InitSpecPage /\ [][NextPage]_vars

InitSpecLoad ==
  InitLoad
    /\ IdleTier /\ IdlePrice /\ IdleCrossdock /\ IdleFormat
    /\ IdleCombine /\ IdleDates /\ IdleFetch /\ IdleSave /\ IdleForecast
    /\ IdlePage /\ IdleParquet /\ IdleScript /\ IdleCache /\ IdleCleanup
OthersLoad == 
  <<varsTier, varsPrice, varsCrossdock, varsFormat, varsCombine, varsDates,
    varsFetch, varsSave, varsForecast, varsPage, varsParquet, varsScript,
    varsCache, varsCleanup>>
NextLoad ==
  \/ SaveUploadedFile /\ UNCHANGED OthersLoad
  \/ LoadData /\ UNCHANGED OthersLoad
SpecLoad == InitSpecLoad /\ [][NextLoad]_vars

InitSpecParquet ==
  InitParquet
    /\ IdleTier /\ IdlePrice /\ IdleCrossdock /\ IdleFormat
    /\ IdleCombine /\ IdleDates /\ IdleFetch /\ IdleSave /\ IdleForecast
    /\ IdlePage /\ IdleLoad /\ IdleScript /\ IdleCache /\ IdleCleanup
OthersParquet == 
  <<varsTier, varsPrice, varsCrossdock, varsFormat, varsCombine, varsDates,
    varsFetch, varsSave, varsForecast, varsPage, varsLoad, varsScript,
    varsCache, varsCleanup>>
NextParquet ==
  \/ CheckRequiredFiles /\ UNCHANGED OthersParquet
  \/ JoinAndPrice /\ UNCHANGED OthersParquet
  \/ RemoveExistingParquet /\ UNCHANGED OthersParquet
  \/ ToParquet /\ UNCHANGED OthersParquet
SpecParquet == InitSpecParquet /\ [][NextParquet]_vars

InitSpecScript ==
  InitScript
    /\ IdleTier /\ IdlePrice /\ IdleCrossdock /\ IdleFormat
    /\ IdleCombine /\ IdleDates /\ IdleFetch /\ IdleSave /\ IdleForecast
    /\ IdlePage /\ IdleLoad /\ IdleParquet /\ IdleCache /\ IdleCleanup
OthersScript == 
  <<varsTier, varsPrice, varsCrossdock, varsFormat, varsCombine, varsDates,
    varsFetch, varsSave, varsForecast, varsPage, varsLoad, varsParquet,
    varsCache, varsCleanup>>
NextScript ==
  \/ RunScript /\ UNCHANGED OthersScript
  \/ WriteCsv /\ UNCHANGED OthersScript
  \/ CollectOutputs /\ UNCHANGED OthersScript
  \/ RunExcelAutomation /\ UNCHANGED OthersScript
SpecScript == InitSpecScript /\ [][NextScript]_vars

InitSpecCache ==
  InitCache
    /\ IdleTier /\ IdlePrice /\ IdleCrossdock /\ IdleFormat
    /\ IdleCombine /\ IdleDates /\ IdleFetch /\ IdleSave /\ IdleForecast
    /\ IdlePage /\ IdleLoad /\ IdleParquet /\ IdleScript /\ IdleCleanup
OthersCache == 
  <<varsTier, varsPrice, varsCrossdock, varsFormat, varsCombine, varsDates,
    varsFetch, varsSave, varsForecast, varsPage, varsLoad, varsParquet,
    varsScript, varsCleanup>>
NextCache ==
  \/ RenderPage /\ UNCHANGED OthersCache
  \/ RenderAndRun /\ UNCHANGED OthersCache
  \/ MinutePasses /\ UNCHANGED OthersCache
SpecCache == InitSpecCache /\ [][NextCache]_vars

InitSpecCleanup ==
  InitCleanup
    /\ IdleTier /\ IdlePrice /\ IdleCrossdock /\ IdleFormat
    /\ IdleCombine /\ IdleDates /\ IdleFetch /\ IdleSave /\ IdleForecast
    /\ IdlePage /\ IdleLoad /\ IdleParquet /\ IdleScript /\ IdleCache
OthersCleanup == 
  <<varsTier, varsPrice, varsCrossdock, varsFormat, varsCombine, varsDates,
    varsFetch, varsSave, varsForecast, varsPage, varsLoad, varsParquet,
    varsScript, varsCache>>
NextCleanup ==
  \/ CleanupOldFiles /\ UNCHANGED OthersCleanup
  \/ CleanupOldInputFiles /\ UNCHANGED OthersCleanup
SpecCleanup == InitSpecCleanup /\ [][NextCleanup]_vars

\* main goes from the save to its return.
MainReturns == bpc = "save" /\ bpc' = "done"

\* The script runner takes the next step of the page or of main as long as
\* there is one: a call returns, and st.rerun() starts the next pass.
SpecFetchFair ==
  /\ SpecFetch
  /\ WF_vars(RenderCheckApiKeys /\ UNCHANGED OthersFetch)
  /\ WF_vars((RenderSaveApiKeys \/ RenderRefresh) /\ UNCHANGED OthersFetch)
  /\ WF_vars(MainLoadApiKeys /\ UNCHANGED OthersFetch)
  /\ WF_vars(MainTestApiKeys /\ UNCHANGED OthersFetch)
  /\ WF_vars(FetchFredSeries /\ UNCHANGED OthersFetch)
  /\ WF_vars(FetchEiaSeries /\ UNCHANGED OthersFetch)
  /\ WF_bpc(MainReturns)
  /\ WF_vars(Rerun /\ UNCHANGED OthersFetch)

====
